---- MODULE Spec2Model ----
(***************************************************************************)
(* Budget estimation engine of AutoScape: parse_price_range and            *)
(* calculate_budget (src/budget_calculator.py) over PRICING_DATABASE       *)
(* (src/pricing_data.py).                                                  *)
(*                                                                         *)
(* Python str values are TLA+ strings; a float is a decimal number         *)
(* [m, k] standing for m / 10^k, kept normalised so that equal numbers are *)
(* equal records.  A float the model computes from digit strings and       *)
(* integer quantities is a short decimal (a table price times an integer,  *)
(* or the value of a digit string), which binary floating point represents *)
(* without collision.  A float computed from a fractional quantity is the  *)
(* binary64 value itself, [bits, e] standing for bits * 2^e, and its       *)
(* arithmetic rounds to 53 bits, to nearest, ties to even.                 *)
(***************************************************************************)
EXTENDS Integers, Sequences, FiniteSets, TLC

VARIABLES
    price_str,      \* parse_price_range: the argument of the last call
    parsed,         \* parse_price_range: what the last call returned or raised
    origin,         \* how price_str was written (free text, or amounts formatted)
    items,          \* calculate_budget: the argument
    idx,            \* calculate_budget: position of the for loop (1-based)
    total_low,      \* calculate_budget: local total_low
    total_high,     \* calculate_budget: local total_high
    breakdown,      \* calculate_budget: local breakdown
    found_category, \* calculate_budget: local found_category of the last iteration
    found_size,     \* calculate_budget: local found_size of the last iteration
    price_range_str, \* calculate_budget: local price_range_str of the last iteration
    pc,             \* calculate_budget: "idle", "loop", "returned" or "raised"
    exc,            \* calculate_budget: the exception that left the call, or "none"
    calls,          \* concurrent callers: the frame of each caller's invocation
    pricing_database, \* the module global pricing_data.PRICING_DATABASE
    STRIPE_SECRET_KEY, \* stripe_checkout_api: the module global read from the environment
    processed_event_ids, \* stripe_checkout_api: the module global set of event ids
    granted,        \* Firestore: how often each event's credits were added to an account
    sessions,       \* Stripe: the checkout sessions created
    request,        \* stripe_checkout_api: the request handled last
    response,       \* stripe_checkout_api: the answer to it
    video,          \* video_generator: the call of generate_transformation_video
    stream,         \* api: the run of the generator generate_ad_stream
    gemini          \* freepik_ingest / clean_and_enrich: the call of the image analysis

vars ==
    <<price_str, parsed, origin, items, idx, total_low, total_high, breakdown,
      found_category, found_size, price_range_str, pc, exc, calls, pricing_database,
      STRIPE_SECRET_KEY, processed_event_ids, granted, sessions, request, response,
      video, stream, gemini>>
parseVars == <<price_str, parsed, origin>>
budgetVars ==
    <<items, idx, total_low, total_high, breakdown, found_category, found_size,
      price_range_str, pc, exc>>
callerVars == <<calls, pricing_database>>
engineVars == <<parseVars, budgetVars, callerVars>>
stripeVars == <<STRIPE_SECRET_KEY, processed_event_ids, granted, sessions, request, response>>
serviceVars == <<stripeVars, video, stream, gemini>>

---------------------------------------------------------------------------
(* Bounds of the model *)

\* longest free text handed to parse_price_range
MaxLen == 4
\* longest item list handed to calculate_budget
MaxItems == 2
\* callers that invoke calculate_budget at the same time
NumCallers == 2
\* the number of ids processed_event_ids may hold before stripe_webhook clears
\* it: 10000 in the source (line 325), scaled down
MaxProcessed == 1
\* most products a search finds and most search queries the reasoning lists
MaxProducts == 2
MaxQueries == 2

---------------------------------------------------------------------------
(* Python str operations *)

Digits == {"0", "1", "2", "3", "4", "5", "6", "7", "8", "9"}

DigitVal(c) ==
    CASE c = "0" -> 0 [] c = "1" -> 1 [] c = "2" -> 2 [] c = "3" -> 3
      [] c = "4" -> 4 [] c = "5" -> 5 [] c = "6" -> 6 [] c = "7" -> 7
      [] c = "8" -> 8 [] c = "9" -> 9

DigitChar(d) ==
    CASE d = 0 -> "0" [] d = 1 -> "1" [] d = 2 -> "2" [] d = 3 -> "3"
      [] d = 4 -> "4" [] d = 5 -> "5" [] d = 6 -> "6" [] d = 7 -> "7"
      [] d = 8 -> "8" [] d = 9 -> "9"

\* str.lower() on one character
LowerChar(c) ==
    CASE c = "A" -> "a" [] c = "B" -> "b" [] c = "C" -> "c" [] c = "D" -> "d"
      [] c = "E" -> "e" [] c = "F" -> "f" [] c = "G" -> "g" [] c = "H" -> "h"
      [] c = "I" -> "i" [] c = "J" -> "j" [] c = "K" -> "k" [] c = "L" -> "l"
      [] c = "M" -> "m" [] c = "N" -> "n" [] c = "O" -> "o" [] c = "P" -> "p"
      [] c = "Q" -> "q" [] c = "R" -> "r" [] c = "S" -> "s" [] c = "T" -> "t"
      [] c = "U" -> "u" [] c = "V" -> "v" [] c = "W" -> "w" [] c = "X" -> "x"
      [] c = "Y" -> "y" [] c = "Z" -> "z" [] OTHER -> c

RECURSIVE Lower(_)
\* str.lower()
Lower(s) == IF s = "" THEN "" ELSE LowerChar(Head(s)) \o Lower(Tail(s))

\* sub in s (substring containment)
Contains(sub, s) ==
    \E i \in 0..(Len(s) - Len(sub)) : SubSeq(s, i + 1, i + Len(sub)) = sub

RECURSIVE Remove(_, _)
\* s.replace(c, '') for a one-character c
Remove(s, c) ==
    IF s = "" THEN ""
    ELSE IF Head(s) = c THEN Remove(Tail(s), c)
    ELSE Head(s) \o Remove(Tail(s), c)

\* variant of Split that takes a leading c for a sign and does not cut there
Split_keeps_leading_sign(s, c) ==
    LET cuts == {j \in 2..Len(s) : SubSeq(s, j, j) = c}
        after(j) == IF \E h \in cuts : h > j
                    THEN (CHOOSE h \in cuts : h > j /\ \A g \in cuts : g > j => h <= g) - 1
                    ELSE Len(s)
    IN <<SubSeq(s, 1, after(1))>>
       \o [n \in 1..Cardinality(cuts) |->
              LET j == CHOOSE h \in cuts : Cardinality({g \in cuts : g <= h}) = n
              IN SubSeq(s, j + 1, after(j))]

RECURSIVE Split(_, _)
\* s.split(c) for a one-character c: always at least one part
Split(s, c) ==
    IF \A i \in 1..Len(s) : SubSeq(s, i, i) # c THEN <<s>>
    ELSE LET i == CHOOSE j \in 1..Len(s) :
                      /\ SubSeq(s, j, j) = c
                      /\ \A h \in 1..(j - 1) : SubSeq(s, h, h) # c
         IN <<SubSeq(s, 1, i - 1)>> \o Split(SubSeq(s, i + 1, Len(s)), c)

RECURSIVE LStrip(_)
LStrip(s) == IF s # "" /\ Head(s) = " " THEN LStrip(Tail(s)) ELSE s

RECURSIVE RStrip(_)
RStrip(s) ==
    IF s # "" /\ SubSeq(s, Len(s), Len(s)) = " "
    THEN RStrip(SubSeq(s, 1, Len(s) - 1)) ELSE s

\* s.strip()
Strip(s) == RStrip(LStrip(s))

RECURSIVE KeepDigitsDots(_)
\* re.sub(r'[^\d.]', '', s)
KeepDigitsDots(s) ==
    IF s = "" THEN ""
    ELSE IF Head(s) \in Digits \cup {"."} THEN Head(s) \o KeepDigitsDots(Tail(s))
    ELSE KeepDigitsDots(Tail(s))

---------------------------------------------------------------------------
(* Python float values: decimal numbers m / 10^k *)

RECURSIVE Pow10(_)
Pow10(k) == IF k = 0 THEN 1 ELSE 10 * Pow10(k - 1)

RECURSIVE Norm(_, _)
\* the normal form of m / 10^k
Norm(m, k) == IF k > 0 /\ m % 10 = 0 THEN Norm(m \div 10, k - 1) ELSE [m |-> m, k |-> k]

Zero == [m |-> 0, k |-> 0]
FromInt(n) == [m |-> n, k |-> 0]

\* a * n for an int n
FMulInt(a, n) == Norm(a.m * n, a.k)

\* the floats that are no number of dollars: float('nan'), float('inf') and
\* float('-inf')
NaN == [special |-> "nan"]
Inf == [special |-> "inf"]
NegInf == [special |-> "-inf"]
IsSpecial(x) == "special" \in DOMAIN x

\* a + b when a or b is nan or infinite
SpecialAdd(a, b) ==
    IF a = NaN \/ b = NaN THEN NaN
    ELSE IF IsSpecial(a) /\ IsSpecial(b) THEN (IF a = b THEN a ELSE NaN)
    ELSE IF IsSpecial(a) THEN a
    ELSE b

(* binary64 values that are no short decimal: [mant, e] stands for          *)
(* mant * 2^e, the mantissa a positive integer written in limbs of LimbBits  *)
(* bits, least significant first                                             *)

IsBin(x) == "mant" \in DOMAIN x

LimbBits == 13
\* 2^LimbBits
Base == 8192

RECURSIVE Pow2(_)
Pow2(n) == IF n = 0 THEN 1 ELSE 2 * Pow2(n - 1)

RECURSIVE Trim(_)
\* without the leading zero limbs
Trim(a) == IF a # <<>> /\ a[Len(a)] = 0 THEN Trim(SubSeq(a, 1, Len(a) - 1)) ELSE a

RECURSIVE BigOfInt(_)
BigOfInt(n) == IF n = 0 THEN <<>> ELSE <<n % Base>> \o BigOfInt(n \div Base)

RECURSIVE IntOfBig(_)
IntOfBig(a) == IF a = <<>> THEN 0 ELSE Head(a) + Base * IntOfBig(Tail(a))

\* the number of bits of a > 0
BitLen(a) ==
    LimbBits * (Len(a) - 1)
    + (CHOOSE n \in 1..LimbBits : Pow2(n - 1) <= a[Len(a)] /\ a[Len(a)] < Pow2(n))

\* bit p of a, the lowest being bit 0
TestBit(a, p) ==
    /\ p \div LimbBits + 1 <= Len(a)
    /\ (a[p \div LimbBits + 1] \div Pow2(p % LimbBits)) % 2 = 1

\* a mod 2^t is not 0
AnyLow(a, t) == \E p \in 0..(t - 1) : TestBit(a, p)

RECURSIVE AddFrom(_, _, _, _)
AddFrom(a, b, i, carry) ==
    IF i > Len(a) /\ i > Len(b) THEN (IF carry = 0 THEN <<>> ELSE <<carry>>)
    ELSE LET sum == (IF i <= Len(a) THEN a[i] ELSE 0)
                    + (IF i <= Len(b) THEN b[i] ELSE 0) + carry
         IN <<sum % Base>> \o AddFrom(a, b, i + 1, sum \div Base)

\* a + b
AddBig(a, b) == AddFrom(a, b, 1, 0)

RECURSIVE MulFrom(_, _, _, _)
MulFrom(a, n, i, carry) ==
    IF i > Len(a) THEN BigOfInt(carry)
    ELSE <<(a[i] * n + carry) % Base>> \o MulFrom(a, n, i + 1, (a[i] * n + carry) \div Base)

\* a * n for 0 < n <= Base
MulSmall(a, n) == MulFrom(a, n, 1, 0)

\* a * 2^s
ShiftLeft(a, s) == [i \in 1..(s \div LimbBits) |-> 0] \o MulSmall(a, Pow2(s % LimbBits))

\* a \div 2^s
ShiftRight(a, s) ==
    LET d == SubSeq(a, s \div LimbBits + 1, Len(a))
        r == s % LimbBits
    IN Trim([i \in 1..Len(d) |->
                 d[i] \div Pow2(r)
                 + (IF i < Len(d) THEN (d[i + 1] % Pow2(r)) * Pow2(LimbBits - r) ELSE 0)])

\* the 53 leading bits of a, rounded to nearest, ties to even, and the number
\* of bits dropped
Round53(a) ==
    IF BitLen(a) <= 53 THEN [mant |-> a, shift |-> 0]
    ELSE LET s == BitLen(a) - 53
             up == /\ TestBit(a, s - 1)
                   /\ AnyLow(a, s - 1) \/ TestBit(a, s)
         IN [mant |-> IF up THEN AddBig(ShiftRight(a, s), <<1>>) ELSE ShiftRight(a, s),
             shift |-> s]

\* the one record that stands for a * 2^e: an odd mantissa, or the short
\* decimal when the value is a small integer
Canon(a, e) ==
    LET tz == CHOOSE p \in 0..(BitLen(a) - 1) :
                  TestBit(a, p) /\ \A q \in 0..(p - 1) : ~TestBit(a, q)
    IN IF e + tz >= 0 /\ BitLen(a) + e <= 30
       THEN FromInt(IntOfBig(ShiftRight(a, tz)) * Pow2(e + tz))
       ELSE [mant |-> ShiftRight(a, tz), e |-> e + tz]

\* a float > 0 as mant * 2^e
ToBin(x) == IF IsBin(x) THEN x ELSE [mant |-> BigOfInt(x.m), e |-> 0]

\* x + y, rounded
BinAdd(x, y) ==
    LET e == IF x.e < y.e THEN x.e ELSE y.e
        sum == Round53(AddBig(ShiftLeft(x.mant, x.e - e), ShiftLeft(y.mant, y.e - e)))
    IN Canon(sum.mant, e + sum.shift)

\* x * n for an integer 0 < n <= Base, rounded
BinMulSmall(x, n) ==
    LET product == Round53(MulSmall(x.mant, n))
    IN Canon(product.mant, x.e + product.shift)

\* a + b: exact on short decimals, rounded otherwise (the floats that are no
\* short decimal are positive, and are added to integers >= 0)
FAdd(a, b) ==
    IF IsSpecial(a) \/ IsSpecial(b) THEN SpecialAdd(a, b)
    ELSE IF ~IsBin(a) /\ ~IsBin(b)
    THEN LET k == IF a.k > b.k THEN a.k ELSE b.k
         IN Norm(a.m * Pow10(k - a.k) + b.m * Pow10(k - b.k), k)
    ELSE IF a = Zero THEN b
    ELSE IF b = Zero THEN a
    ELSE BinAdd(ToBin(a), ToBin(b))

HexVal(c) ==
    CASE c = "a" -> 10 [] c = "b" -> 11 [] c = "c" -> 12 [] c = "d" -> 13
      [] c = "e" -> 14 [] c = "f" -> 15 [] OTHER -> DigitVal(c)

RECURSIVE HexBig(_)
\* the number a hexadecimal numeral writes
HexBig(h) ==
    IF h = "" THEN <<>>
    ELSE AddBig(MulSmall(HexBig(SubSeq(h, 1, Len(h) - 1)), 16),
                BigOfInt(HexVal(SubSeq(h, Len(h), Len(h)))))

\* a * q for a price bound a (an integer, 0 <= a <= Base) and a float q > 0
\* given as the hexadecimal mantissa and the exponent of float.hex()
FMulFloat(a, hex, e) ==
    IF a = Zero THEN Zero
    ELSE BinMulSmall([mant |-> HexBig(hex), e |-> e], a.m)

\* a <= b on short decimals, nan and the infinities; nan compares False
FLeq(a, b) ==
    IF a = NaN \/ b = NaN THEN FALSE
    ELSE IF a = NegInf \/ b = Inf THEN TRUE
    ELSE IF a = Inf \/ b = NegInf THEN FALSE
    ELSE LET k == IF a.k > b.k THEN a.k ELSE b.k
         IN a.m * Pow10(k - a.k) <= b.m * Pow10(k - b.k)

RECURSIVE DigitsToInt(_)
\* the number a string of digits writes ('' is 0)
DigitsToInt(s) ==
    IF s = "" THEN 0
    ELSE 10 * DigitsToInt(SubSeq(s, 1, Len(s) - 1)) + DigitVal(SubSeq(s, Len(s), Len(s)))

\* float() on the text left after the sign: 'nan', 'inf' or 'infinity' in
\* any case, or digits with at most one '.' and at least one digit;
\* [ok |-> FALSE] stands for ValueError
float_digits(body, negative) ==
    IF Len(body) \in {3, 8} /\ Lower(body) \in {"nan", "inf", "infinity"}
    THEN [ok |-> TRUE,
          v |-> IF Lower(body) = "nan" THEN NaN ELSE IF negative THEN NegInf ELSE Inf]
    ELSE
    LET dots == {i \in 1..Len(body) : SubSeq(body, i, i) = "."}
        k == IF dots = {} THEN 0 ELSE Len(body) - (CHOOSE i \in dots : TRUE)
    IN IF /\ \A i \in 1..Len(body) : SubSeq(body, i, i) \in Digits \cup {"."}
          /\ Cardinality(dots) <= 1
          /\ \E i \in 1..Len(body) : SubSeq(body, i, i) \in Digits
       THEN [ok |-> TRUE,
             v |-> IF negative THEN Norm(0 - DigitsToInt(Remove(body, ".")), k)
                   ELSE Norm(DigitsToInt(Remove(body, ".")), k)]
       ELSE [ok |-> FALSE, v |-> Zero]

\* float() on text without surrounding whitespace: one sign is accepted
float_signed(t) ==
    IF t # "" /\ Head(t) \in {"+", "-"}
    THEN float_digits(Tail(t), Head(t) = "-")
    ELSE float_digits(t, FALSE)

\* float(s): surrounding whitespace is skipped.  (Exponents and '_' need
\* characters that no string of this model holds next to a digit.)
PyFloat(s) == float_signed(Strip(s))

---------------------------------------------------------------------------
(* parse_price_range *)

\* what a call of parse_price_range does: return (low, high), or raise
Returned(low, high) == [exc |-> "none", low |-> low, high |-> high]
Raised(e) == [exc |-> e, low |-> Zero, high |-> Zero]

\* variant of clean_str that leaves the dollar signs
clean_str_keeps_dollars(s) == Remove(s, ",")

\* variant of clean_str that forgets the thousands separators
clean_str_keeps_commas(s) == Remove(s, "$")

\* line 13: remove '$' and ','
clean_str(s) == Remove(Remove(s, "$"), ",")

\* lines 18-22: both floats parsed, or ValueError caught and (0.0, 0.0)
range_result(low, high) ==
    IF low.ok /\ high.ok THEN Returned(low.v, high.v) ELSE Returned(Zero, Zero)

\* lines 16-22: two parts, each parsed as a float after strip()
range_branch(parts) ==
    range_result(PyFloat(Strip(parts[1])), PyFloat(Strip(parts[2])))

\* variant of single_result without the except clause
single_result_uncaught(val) ==
    IF val.ok THEN Returned(val.v, val.v) ELSE Raised("ValueError")

\* lines 27-29: the float parsed, or ValueError caught and (0.0, 0.0)
single_result(val) ==
    IF val.ok THEN Returned(val.v, val.v) ELSE Returned(Zero, Zero)

\* variant of single_branch without the re.sub
single_branch_no_sub(parts) == single_result(PyFloat(parts[1]))

\* lines 23-29: one part, everything but digits and dots dropped
single_branch(parts) == single_result(PyFloat(KeepDigitsDots(parts[1])))

\* variant of parse_parts that reads the first two parts of a longer split
parse_parts_first_two(parts) ==
    IF Len(parts) >= 2 THEN range_branch(parts) ELSE single_branch(parts)

\* lines 16-31: the branch taken for the parts
parse_parts(parts) ==
    IF Len(parts) = 2 THEN range_branch(parts)
    ELSE IF Len(parts) = 1 THEN single_branch(parts)
    ELSE Returned(Zero, Zero)

parse_price_range(s) == parse_parts(Split(clean_str(s), "-"))

---------------------------------------------------------------------------
(* Writing amounts as text: str(), f"{x:,}" and f"{x:,.2f}" *)

RECURSIVE IntStr(_)
\* str(n) for an int n >= 0
IntStr(n) == IF n < 10 THEN DigitChar(n) ELSE IntStr(n \div 10) \o DigitChar(n % 10)

RECURSIVE PadStr(_, _)
\* n written with exactly w digits
PadStr(n, w) == IF w = 0 THEN "" ELSE PadStr(n \div 10, w - 1) \o DigitChar(n % 10)

RECURSIVE Grouped(_)
\* f"{n:,}" for an int n >= 0
Grouped(n) == IF n < 1000 THEN IntStr(n) ELSE Grouped(n \div 1000) \o "," \o PadStr(n % 1000, 3)

\* str(x) or f"{x:,}" of a number x >= 0; a Python float always shows a fraction
FormatAmount(x, isFloat, commas) ==
    LET whole == x.m \div Pow10(x.k)
        frac == x.m % Pow10(x.k)
    IN (IF commas THEN Grouped(whole) ELSE IntStr(whole))
       \o (IF x.k > 0 THEN "." \o PadStr(frac, x.k)
           ELSE IF isFloat THEN ".0" ELSE "")

\* x * 100 rounded to an integer, ties to even, for x = mant * 2^e with e < 0
CentsOfBin(x) ==
    LET scaled == MulSmall(x.mant, 100)
        n == 0 - x.e
        whole == IntOfBig(ShiftRight(scaled, n))
        up == /\ TestBit(scaled, n - 1)
              /\ AnyLow(scaled, n - 1) \/ whole % 2 = 1
    IN IF up THEN whole + 1 ELSE whole

\* f"{x:,.2f}": a short decimal with at most two decimals is written as it
\* is, any other float rounded to the nearest cent
Format2f(x) ==
    IF IsSpecial(x) THEN x.special
    ELSE IF IsBin(x)
    THEN Grouped(CentsOfBin(x) \div 100) \o "." \o PadStr(CentsOfBin(x) % 100, 2)
    ELSE LET mag == IF x.m < 0 THEN 0 - x.m ELSE x.m
             cents == mag * Pow10(2 - x.k)
         IN (IF x.m < 0 THEN "-" ELSE "")
            \o Grouped(cents \div 100) \o "." \o PadStr(cents % 100, 2)

\* f"{x:,.2f}" of x = bound * quantity for a bound >= 0: the product of 0.0
\* and a negative quantity is -0.0, which is written '-0.00'
Format2fProduct(x, quantity) ==
    IF x = Zero /\ quantity.t = "int" /\ quantity.n < 0 THEN "-0.00" ELSE Format2f(x)

RECURSIVE Spaces(_)
Spaces(n) == IF n = 0 THEN "" ELSE " " \o Spaces(n - 1)

---------------------------------------------------------------------------
(* pricing_data.PRICING_DATABASE: a dict of dicts, in insertion order.        *)
(* Each entry is a category key and its <<size key, price string>> pairs.     *)

PRICING_DATABASE ==
    << [category |-> "tree",
        sizes |-> <<
            <<"15-gallon", "$80 - $150">>,
            <<"24-inch box", "$250 - $500">>,
            <<"mature", "$800+">>>>],
       [category |-> "shrub",
        sizes |-> <<
            <<"1-gallon", "$10 - $20">>,
            <<"5-gallon", "$30 - $55">>>>],
       [category |-> "bush",
        sizes |-> <<
            <<"1-gallon", "$10 - $20">>,
            <<"5-gallon", "$30 - $55">>>>],
       [category |-> "grass",
        sizes |-> <<
            <<"1-gallon", "$8 - $15">>,
            <<"plug", "$2 - $5">>>>],
       [category |-> "palm",
        sizes |-> <<
            <<"15-gallon", "$100 - $200">>,
            <<"mature (per foot of trunk)", "$100 - $300">>>>],
       [category |-> "bamboo",
        sizes |-> <<
            <<"5-gallon", "$40 - $80">>,
            <<"15-gallon", "$120 - $200">>>>],
       [category |-> "hedge",
        sizes |-> <<
            <<"5-gallon", "$35 - $60">>,
            <<"per linear foot (installed)", "$40 - $100">>>>],
       [category |-> "flower",
        sizes |-> <<
            <<"4-inch pot", "$3 - $6">>,
            <<"1-gallon", "$10 - $15">>>>],
       [category |-> "perennial",
        sizes |-> <<
            <<"1-gallon", "$12 - $18">>>>],
       [category |-> "topiary",
        sizes |-> <<
            <<"shaped 5-gallon", "$60 - $120">>,
            <<"mature shaped", "$300+">>>>],
       [category |-> "paver",
        sizes |-> <<
            <<"concrete (per sq ft)", "$5 - $10">>,
            <<"brick (per sq ft)", "$8 - $15">>,
            <<"stone (per sq ft)", "$15 - $30">>>>],
       [category |-> "gravel",
        sizes |-> <<
            <<"pea gravel (per cubic yard)", "$40 - $60">>,
            <<"decorative rock (per ton)", "$100 - $300">>,
            <<"bag (0.5 cu ft)", "$5 - $10">>>>],
       [category |-> "stone",
        sizes |-> <<
            <<"flagstone (per ton)", "$300 - $600">>,
            <<"boulder (each)", "$100 - $500">>>>],
       [category |-> "mulch",
        sizes |-> <<
            <<"bulk (per cubic yard)", "$30 - $50">>,
            <<"bag (2 cu ft)", "$4 - $8">>>>],
       [category |-> "edging",
        sizes |-> <<
            <<"plastic (per ft)", "$1 - $3">>,
            <<"metal (per ft)", "$3 - $8">>,
            <<"stone (per ft)", "$5 - $15">>>>],
       [category |-> "retaining wall",
        sizes |-> <<
            <<"block (per sq ft face)", "$15 - $25">>,
            <<"natural stone (per sq ft face)", "$30 - $60">>>>] >>

---------------------------------------------------------------------------
(* Python values an item dict can hold under a key *)

Str(s) == [t |-> "str", s |-> s, n |-> 0]
IntV(n) == [t |-> "int", s |-> "", n |-> n]
\* a float > 0, written as float.hex() writes it: the mantissa in hexadecimal
\* digits and the power of two it is multiplied by
FloatV(hex, e) == [t |-> "float", s |-> hex, n |-> e]
NoneV == [t |-> "none", s |-> "", n |-> 0]
\* the key is not in the dict
Absent == [t |-> "absent", s |-> "", n |-> 0]

\* item.get(key, default)
Get(v, default) == IF v.t = "absent" THEN default ELSE v

\* found_category / found_size = None
None == "<None>"

---------------------------------------------------------------------------
(* calculate_budget: the body of the for loop *)

\* variant of category_scan that keeps the last matching key, not the first
category_scan_last_match(category, name, i) ==
    IF name.t # "str" THEN [exc |-> "AttributeError", found_category |-> None]
    ELSE LET m == {h \in i..Len(PRICING_DATABASE) :
                      \/ Contains(PRICING_DATABASE[h].category, category)
                      \/ Contains(PRICING_DATABASE[h].category, Lower(name.s))}
         IN IF m = {} THEN [exc |-> "none", found_category |-> None]
            ELSE [exc |-> "none",
                  found_category |->
                      PRICING_DATABASE[CHOOSE h \in m : \A g \in m : g <= h].category]

RECURSIVE category_scan(_, _, _)
\* lines 58-61 from the i-th key on; name.lower() is evaluated only when the
\* key is not in category, and raises AttributeError unless name is a str
category_scan(category, name, i) ==
    IF i > Len(PRICING_DATABASE) THEN [exc |-> "none", found_category |-> None]
    ELSE LET db_cat == PRICING_DATABASE[i].category
         IN IF Contains(db_cat, category)
            THEN [exc |-> "none", found_category |-> db_cat]
            ELSE IF name.t # "str"
            THEN [exc |-> "AttributeError", found_category |-> None]
            ELSE IF Contains(db_cat, Lower(name.s))
            THEN [exc |-> "none", found_category |-> db_cat]
            ELSE category_scan(category, name, i + 1)

\* variant of find_category that prefers a key matching the category to a
\* key matching only the name
find_category_prefers_category(category, name) ==
    LET byCategory == {i \in 1..Len(PRICING_DATABASE) :
                          Contains(PRICING_DATABASE[i].category, category)}
    IN IF byCategory # {}
       THEN [exc |-> "none",
             found_category |->
                 PRICING_DATABASE[CHOOSE i \in byCategory :
                                      \A j \in byCategory : i <= j].category]
       ELSE category_scan(category, name, 1)

\* lines 57-61
find_category(category, name) == category_scan(category, name, 1)

\* PRICING_DATABASE[found_category]
SizePrices(db_cat) ==
    (CHOOSE e \in {PRICING_DATABASE[i] : i \in 1..Len(PRICING_DATABASE)} :
        e.category = db_cat).sizes

RECURSIVE size_scan(_, _, _)
\* lines 68-71 from the j-th size key on
size_scan(size_prices, size, j) ==
    IF j > Len(size_prices) THEN None
    ELSE IF Contains(size_prices[j][1], size) THEN size_prices[j][1]
    ELSE size_scan(size_prices, size, j + 1)

\* variant of first_size that takes the last size key
first_size_takes_last(size_prices) == size_prices[Len(size_prices)][1]

\* line 75: the first size key
first_size(size_prices) == size_prices[1][1]

\* lines 67-75: `db_size in size` raises TypeError when size is None or a number
find_size(size_prices, size) ==
    IF size.t # "str" THEN [exc |-> "TypeError", found_size |-> None]
    ELSE IF size_scan(size_prices, size.s, 1) = None
    THEN [exc |-> "none", found_size |-> first_size(size_prices)]
    ELSE [exc |-> "none", found_size |-> size_scan(size_prices, size.s, 1)]

\* variant of PriceOf that reads the price of the last size
PriceOf_last_size(size_prices, db_size) == size_prices[Len(size_prices)][2]

\* size_prices[found_size]
PriceOf(size_prices, db_size) ==
    (CHOOSE e \in {size_prices[j] : j \in 1..Len(size_prices)} : e[1] = db_size)[2]

\* a * quantity for an int or float quantity
FMul(a, quantity) ==
    IF quantity.t = "int" THEN FMulInt(a, quantity.n)
    ELSE IF quantity.s = "inf" THEN (IF a = Zero \/ a = NaN THEN NaN ELSE Inf)
    ELSE FMulFloat(a, quantity.s, quantity.n)

\* variant of line_totals with the two bounds exchanged
line_totals_exchanged(low, high, quantity) ==
    [low |-> FMul(high, quantity), high |-> FMul(low, quantity)]

\* variant of line_totals that charges one unit more than the quantity
line_totals_one_more(low, high, quantity) ==
    [low |-> FAdd(FMul(low, quantity), low), high |-> FAdd(FMul(high, quantity), high)]

\* variant of line_totals that takes the quantity without its sign
line_totals_absolute_quantity(low, high, quantity) ==
    IF quantity.t = "int" /\ quantity.n < 0
    THEN [low |-> FMulInt(low, 0 - quantity.n), high |-> FMulInt(high, 0 - quantity.n)]
    ELSE [low |-> FMul(low, quantity), high |-> FMul(high, quantity)]

\* lines 82-83: float * quantity raises TypeError unless quantity is a number
line_totals(low, high, quantity) ==
    [low |-> FMul(low, quantity), high |-> FMul(high, quantity)]

\* variant of accumulate with = for +=
accumulate_overwrites(total, item_total) == item_total

\* lines 85-86
accumulate(total, item_total) == FAdd(total, item_total)

BodyRaised(e) ==
    [exc |-> e, name |-> NoneV, quantity |-> NoneV, found_category |-> None,
     found_size |-> None, price_range_str |-> "", item_total_low |-> Zero,
     item_total_high |-> Zero]

\* variant of name_of without the default
name_of_no_default(item) == Get(item.name, NoneV)

\* lines 48-51: the locals read from the item
name_of(item) == Get(item.name, Str("Unknown Item"))
category_of(item) == Get(item.category, Str("plant"))
size_of(item) == Get(item.size, Str("1-gallon"))
quantity_of(item) == Get(item.quantity, IntV(1))

\* lines 80-86: the price parsed and multiplied by the quantity
body_totals(item, found_cat, found_sz, unit_price, price) ==
    IF price.exc # "none" THEN BodyRaised(price.exc)
    ELSE IF quantity_of(item).t \notin {"int", "float"} THEN BodyRaised("TypeError")
    ELSE [exc |-> "none", name |-> name_of(item), quantity |-> quantity_of(item),
          found_category |-> found_cat,
          found_size |-> found_sz,
          price_range_str |-> unit_price,
          item_total_low |-> line_totals(price.low, price.high, quantity_of(item)).low,
          item_total_high |-> line_totals(price.low, price.high, quantity_of(item)).high]

\* lines 77-80
body_price(item, found_cat, found_sz, unit_price) ==
    body_totals(item, found_cat, found_sz, unit_price, parse_price_range(unit_price))

\* lines 63-77 with a matched category
body_sized(item, found_cat, sz) ==
    IF sz.exc # "none" THEN BodyRaised(sz.exc)
    ELSE body_price(item, found_cat, sz.found_size,
                    PriceOf(SizePrices(found_cat), sz.found_size))

\* variant of body_category that looks the unmatched category up in the table
body_category_requires_match(item, cat) ==
    IF cat.exc # "none" THEN BodyRaised(cat.exc)
    ELSE IF cat.found_category = None THEN BodyRaised("KeyError")
    ELSE body_sized(item, cat.found_category,
                    find_size(SizePrices(cat.found_category), size_of(item)))

\* lines 54-77, once the category scan is over
body_category(item, cat) ==
    IF cat.exc # "none" THEN BodyRaised(cat.exc)
    ELSE IF cat.found_category = None
    THEN body_price(item, None, None, "$0 - $0")
    ELSE body_sized(item, cat.found_category,
                    find_size(SizePrices(cat.found_category), size_of(item)))

\* lines 48-86 for one item: the exception the body raises, or its locals;
\* .lower() raises AttributeError unless category is a str
loop_body(item) ==
    IF category_of(item).t # "str" THEN BodyRaised("AttributeError")
    ELSE body_category(item, find_category(Lower(category_of(item).s), name_of(item)))

\* a function, evaluated over its whole domain before it is applied
Tabulated(f) == IF f = f THEN f ELSE f

\* variant of line_item that reports the lower-cased name
line_item_lowers_name(b) ==
    [item |-> [b.name EXCEPT !.s = Lower(b.name.s)], quantity |-> b.quantity,
     unit_price |-> b.price_range_str,
     total_estimate |-> "$" \o Format2fProduct(b.item_total_low, b.quantity) \o " - $"
                        \o Format2fProduct(b.item_total_high, b.quantity)]

\* lines 88-93
line_item(b) ==
    [item |-> b.name, quantity |-> b.quantity, unit_price |-> b.price_range_str,
     total_estimate |-> "$" \o Format2fProduct(b.item_total_low, b.quantity) \o " - $"
                        \o Format2fProduct(b.item_total_high, b.quantity)]

\* the locals of an iteration and the line item it appends
body_and_line(b) == [b |-> b, line |-> line_item(b)]

---------------------------------------------------------------------------
(* Callers of parse_price_range: the strings it is handed *)

\* the characters free text is made of
Alphabet == {"$", ",", "-", " ", "+", ".", "1", "2", "a"}

RECURSIVE Texts(_)
\* every string of exactly n characters
Texts(n) == IF n = 0 THEN {""} ELSE {c \o s : c \in Alphabet, s \in Texts(n - 1)}

\* longer strings of interest
Specimens ==
    {"garbage", "$800+", "$300+", "about 5 dollars", "10 to 20", "$80 - $150",
     "pre-owned $10 - $20", "$10 - $20 - each", "$1,000 - $2,500 (non-refundable)",
     "nan - 1", "$1 - $NaN", "inf - inf", "Infinity-2", "nan", "-inf"}

FreeTexts == UNION {Texts(n) : n \in 0..MaxLen} \cup Specimens

\* amounts in dollars, as a Python int or a Python float
Amounts ==
    {[v |-> FromInt(n), isFloat |-> FALSE] : n \in {0, 5, 80, 150, 800, 999, 1000, 2500, 1234567}}
    \cup {[v |-> Norm(x[1], x[2]), isFloat |-> TRUE] :
             x \in {<<125, 1>>, <<99999, 2>>, <<12345, 1>>, <<300, 0>>}}

\* most spaces written on either side of the hyphen
MaxPad == 2

NoCall == [exc |-> "uncalled", low |-> Zero, high |-> Zero]
NoOrigin == [form |-> "none", low |-> Zero, high |-> Zero]

\* free text
TextInputs ==
    {[s |-> s, origin |-> [form |-> "text", low |-> Zero, high |-> Zero]] : s \in FreeTexts}

\* f"${low} - ${high}" for low <= high, with or without thousands separators
\* and with any padding of the hyphen
RangeInputs ==
    {[s |-> "$" \o FormatAmount(x[1].v, x[1].isFloat, x[3]) \o Spaces(x[4]) \o "-"
             \o Spaces(x[5]) \o "$" \o FormatAmount(x[2].v, x[2].isFloat, x[3]),
      origin |-> [form |-> "range", low |-> x[1].v, high |-> x[2].v]] :
        x \in {y \in Amounts \X Amounts \X BOOLEAN \X (0..MaxPad) \X (0..MaxPad) :
                  FLeq(y[1].v, y[2].v)}}

\* f"${a}" and f"${a}+"
SingleInputs ==
    {[s |-> "$" \o FormatAmount(x[1].v, x[1].isFloat, x[2]) \o (IF x[3] THEN "+" ELSE ""),
      origin |-> [form |-> "single", low |-> x[1].v, high |-> x[1].v]] :
        x \in Amounts \X BOOLEAN \X BOOLEAN}

\* the price strings of the table
TablePrices ==
    UNION {{PRICING_DATABASE[i].sizes[j][2] : j \in 1..Len(PRICING_DATABASE[i].sizes)} :
              i \in 1..Len(PRICING_DATABASE)}

TableInputs ==
    {[s |-> s, origin |-> [form |-> "table", low |-> Zero, high |-> Zero]] : s \in TablePrices}

\* a caller about to call parse_price_range(price_str)
InitParse ==
    /\ \E in \in TextInputs \cup RangeInputs \cup SingleInputs \cup TableInputs :
          /\ price_str = in.s
          /\ origin = in.origin
    /\ parsed = NoCall

---------------------------------------------------------------------------
(* The services at rest *)

\* the ids of the events Stripe delivers: one more than processed_event_ids
\* may hold
EventIds == {"evt_" \o IntStr(n) : n \in 1..(MaxProcessed + 1)}

NoRequest == [endpoint |-> "none"]
NoBody == [status |-> "none"]
NoResponse == [status_code |-> 0, detail |-> "", body |-> NoBody]

\* the server has started and has handled no request
StripeIdle ==
    /\ STRIPE_SECRET_KEY = "sk_test"
    /\ processed_event_ids = {}
    /\ granted = [e \in EventIds |-> 0]
    /\ sessions = {}
    /\ request = NoRequest
    /\ response = NoResponse

VideoIdle == video = [pc |-> "idle"]
StreamIdle == stream = [pc |-> "idle"]
GeminiIdle == gemini = [pc |-> "idle"]

ServicesIdle == StripeIdle /\ VideoIdle /\ StreamIdle /\ GeminiIdle

\* no call of parse_price_range is under way
ParseIdle ==
    /\ price_str = ""
    /\ origin = NoOrigin
    /\ parsed = NoCall

\* the call parse_price_range(price_str)
Parse ==
    /\ parsed = NoCall
    /\ origin.form # "none"
    /\ parsed' = parse_price_range(price_str)
    /\ UNCHANGED <<price_str, origin>>
    /\ UNCHANGED budgetVars
    /\ UNCHANGED callerVars
    /\ UNCHANGED serviceVars

NextParse == Parse

\* no call of calculate_budget is under way
BudgetIdle ==
    /\ items = <<>>
    /\ idx = 0
    /\ total_low = Zero
    /\ total_high = Zero
    /\ breakdown = <<>>
    /\ found_category = None
    /\ found_size = None
    /\ price_range_str = ""
    /\ pc = "idle"
    /\ exc = "none"

Callers == 1..NumCallers

\* the frame of an invocation of calculate_budget(its) before its first
\* statement: the argument and the locals that outlive an iteration
IdleFrame(its) ==
    [items |-> its, idx |-> 0, total_low |-> Zero, total_high |-> Zero,
     breakdown |-> <<>>, pc |-> "idle", exc |-> "none"]

\* no concurrent caller is at work; the table is as the module built it
CallersIdle ==
    /\ calls = [c \in Callers |-> IdleFrame(<<>>)]
    /\ pricing_database = PRICING_DATABASE

\* a caller of parse_price_range alone
InitSpecParse == InitParse /\ BudgetIdle /\ CallersIdle /\ ServicesIdle

SpecParse == InitSpecParse /\ [][NextParse]_vars

---------------------------------------------------------------------------
(* Callers of calculate_budget: the item lists it is handed *)

Item(n, c, s, q) == [name |-> n, category |-> c, size |-> s, quantity |-> q]

\* items with every field present and of the documented type
WellFormedItems ==
    {Item(Str(n), Str(c), Str(s), IntV(q)) :
        n \in {"Oak Tree", "Lavender"},
        c \in {"Shrub", "palm tree"},
        s \in {"5-gallon", "5-Gallon", "huge"},
        q \in {0 - 1, 0, 2}}

BaseItems ==
    {Item(Str("Oak Tree"), Str("Shrub"), Str("5-gallon"), IntV(2)),
     Item(Str("Lavender"), Str("palm tree"), Str("5-Gallon"), IntV(2)),
     Item(Str("Lavender"), Str("plant"), Str("huge"), IntV(2))}

\* items with one field missing, null or of another type, and the item {}
IrregularItems ==
    UNION {{[b EXCEPT !.name = v], [b EXCEPT !.category = v], [b EXCEPT !.size = v]} :
              b \in BaseItems, v \in {Absent, NoneV, IntV(5)}}
    \cup {[b EXCEPT !.quantity = v] : b \in BaseItems, v \in {Absent, NoneV, Str("2")}}
    \cup {Item(Absent, Absent, Absent, Absent)}

\* a quantity of float('inf')
Infinite == FloatV("inf", 0)

\* a palm priced as a tree, an unmatched item returned rather than bought, and
\* an unmatched item in unbounded quantity
EdgeItems ==
    {Item(Str("Queen Palm"), Str("palm tree"), Str("15-gallon"), IntV(1)),
     Item(Str("Lavender"), Str("plant"), Str("huge"), IntV(0 - 1)),
     Item(Str("Lavender"), Str("plant"), Str("huge"), Infinite)}

Items == WellFormedItems \cup BaseItems \cup IrregularItems \cup EdgeItems

ItemLists == UNION {[1..n -> Items] : n \in 0..MaxItems}

\* a caller about to call calculate_budget(items)
InitBudget ==
    /\ items \in ItemLists
    /\ idx = 0
    /\ total_low = Zero
    /\ total_high = Zero
    /\ breakdown = <<>>
    /\ found_category = None
    /\ found_size = None
    /\ price_range_str = ""
    /\ pc = "idle"
    /\ exc = "none"

(* The item lists of concurrent callers *)

\* lines 103-107
test_items ==
    << Item(Str("Japanese Maple"), Str("tree"), Str("15-gallon"), IntV(2)),
       Item(Str("Lavender"), Str("shrub"), Str("1-gallon"), IntV(10)),
       Item(Str("Pea Gravel"), Str("gravel"), Str("pea gravel"), IntV(5)) >>

\* the item {}
EmptyItem == Item(Absent, Absent, Absent, Absent)

\* the item the defaults of lines 48-51 spell out
DefaultItem == Item(Str("Unknown Item"), Str("plant"), Str("1-gallon"), IntV(1))

\* the quantity 0.1: float.hex(0.1) is 0x1.999999999999ap-4
OneTenth == FloatV("1999999999999a", 0 - 56)

BaseLists ==
    { <<>>,
      <<EmptyItem>>,
      <<DefaultItem>>,
      test_items,
      << Item(Str("Oak Tree"), Str("Shrub"), Str("5-gallon"), IntV(0 - 1)),
         Item(Str("Lavender"), Str("plant"), Str("huge"), IntV(0 - 1)) >>,
      << Item(Str("Japanese Maple"), Str("tree"), Str("15-gallon"), IntV(2)),
         Item(Str("Lavender"), Str("shrub"), Str("1-gallon"), Str("2")) >>,
      << Item(Str("Blue Fescue"), Str("grass"), Str("plug"), OneTenth),
         Item(Str("Pansy"), Str("flower"), Str("4-inch pot"), OneTenth) >> }

\* twice a quantity
Twice(quantity) ==
    IF quantity.t = "int" THEN IntV(2 * quantity.n) ELSE FloatV(quantity.s, quantity.n + 1)

\* the list with the quantity of its k-th item doubled
Doubled(its, k) == [its EXCEPT ![k].quantity = Twice(quantity_of(its[k]))]

Numeric(item) == quantity_of(item).t \in {"int", "float"}

\* the base lists, and each with one quantity doubled
CallerLists ==
    BaseLists \cup UNION {{Doubled(its, k) : k \in {h \in 1..Len(its) : Numeric(its[h])}} :
                             its \in BaseLists}

CallerItems == UNION {{its[k] : k \in 1..Len(its)} : its \in CallerLists}

\* loop_body and the line item it appends, tabulated once over the items of
\* the model
LoopBodyOf == Tabulated([it \in Items \cup CallerItems |-> body_and_line(loop_body(it))])

\* variant of initial_totals that starts from a previous call's totals
initial_totals_left_over == [low |-> FromInt(180), high |-> FromInt(340)]

\* lines 43-44: total_low = 0, total_high = 0
initial_totals == [low |-> Zero, high |-> Zero]

\* lines 43-45: the call starts
Call ==
    /\ pc = "idle"
    /\ total_low' = initial_totals.low
    /\ total_high' = initial_totals.high
    /\ breakdown' = <<>>
    /\ idx' = 1
    /\ pc' = "loop"
    /\ UNCHANGED <<items, found_category, found_size, price_range_str, exc>>
    /\ UNCHANGED parseVars
    /\ UNCHANGED callerVars
    /\ UNCHANGED serviceVars

\* lines 47-93: one iteration of the for loop; an exception leaves the call
LoopBody ==
    /\ pc = "loop"
    /\ idx <= Len(items)
    /\ LET b == LoopBodyOf[items[idx]].b
       IN IF b.exc # "none"
          THEN /\ pc' = "raised"
               /\ exc' = b.exc
               /\ UNCHANGED <<idx, total_low, total_high, breakdown, found_category,
                              found_size, price_range_str>>
          ELSE /\ found_category' = b.found_category
               /\ found_size' = b.found_size
               /\ price_range_str' = b.price_range_str
               /\ total_low' = accumulate(total_low, b.item_total_low)
               /\ total_high' = accumulate(total_high, b.item_total_high)
               /\ breakdown' = Append(breakdown, LoopBodyOf[items[idx]].line)
               /\ idx' = idx + 1
               /\ UNCHANGED <<pc, exc>>
    /\ UNCHANGED items
    /\ UNCHANGED parseVars
    /\ UNCHANGED callerVars
    /\ UNCHANGED serviceVars

\* lines 95-99: the loop is over, the result is returned
Return ==
    /\ pc = "loop"
    /\ idx > Len(items)
    /\ pc' = "returned"
    /\ UNCHANGED <<items, idx, total_low, total_high, breakdown, found_category,
                   found_size, price_range_str, exc>>
    /\ UNCHANGED parseVars
    /\ UNCHANGED callerVars
    /\ UNCHANGED serviceVars

Next == Call \/ LoopBody \/ Return

\* a caller of calculate_budget alone
Init == InitBudget /\ ParseIdle /\ CallersIdle /\ ServicesIdle

Spec == Init /\ [][Next]_vars

---------------------------------------------------------------------------
(* Concurrent callers of calculate_budget: each invocation has its own     *)
(* frame; the callers share the module global PRICING_DATABASE, which no    *)
(* statement of calculate_budget assigns to                                 *)

\* lines 43-45
frame_call(f) ==
    [f EXCEPT !.total_low = initial_totals.low, !.total_high = initial_totals.high,
              !.breakdown = <<>>, !.idx = 1, !.pc = "loop"]

\* the outcome of one iteration on the frame, given the loop body's result
frame_after(f, r) ==
    IF r.b.exc # "none" THEN [f EXCEPT !.pc = "raised", !.exc = r.b.exc]
    ELSE [f EXCEPT !.total_low = accumulate(f.total_low, r.b.item_total_low),
                   !.total_high = accumulate(f.total_high, r.b.item_total_high),
                   !.breakdown = Append(f.breakdown, r.line),
                   !.idx = f.idx + 1]

\* variant of frame_body that takes the items off the caller's list
frame_body_consumes_items(f) ==
    [frame_after(f, LoopBodyOf[f.items[1]]) EXCEPT !.items = Tail(f.items)]

\* lines 47-93: one iteration
frame_body(f) == frame_after(f, LoopBodyOf[f.items[f.idx]])

\* lines 95-99
frame_return(f) == [f EXCEPT !.pc = "returned"]

\* the next statement of the invocation
frame_step(f) ==
    IF f.pc = "idle" THEN frame_call(f)
    ELSE IF f.idx <= Len(f.items) THEN frame_body(f)
    ELSE frame_return(f)

RECURSIVE frame_run(_)
\* the invocation run to its end
frame_run(f) == IF f.pc \in {"returned", "raised"} THEN f ELSE frame_run(frame_step(f))

\* what the caller gets: the dict of lines 95-99, or the exception
ResultOf(f) ==
    IF f.pc = "raised"
    THEN [raised |-> f.exc, total_low |-> Zero, total_high |-> Zero, breakdown |-> <<>>]
    ELSE [raised |-> "none", total_low |-> f.total_low, total_high |-> f.total_high,
          breakdown |-> f.breakdown]

\* calculate_budget(its), run alone
calculate_budget(its) == ResultOf(frame_run(IdleFrame(its)))

\* variant of locals in which total_low and total_high are module globals
locals_with_global_totals(c) ==
    [calls[c] EXCEPT !.total_low = calls[1].total_low, !.total_high = calls[1].total_high]

\* the frame caller c's invocation reads and writes
locals(c) == calls[c]

\* the callers about to call calculate_budget, each with its own list
InitCallers ==
    /\ calls \in [Callers -> {IdleFrame(its) : its \in CallerLists}]
    /\ pricing_database = PRICING_DATABASE
    /\ price_str = ""
    /\ origin = NoOrigin
    /\ parsed = NoCall
    /\ items = <<>>
    /\ idx = 0
    /\ total_low = Zero
    /\ total_high = Zero
    /\ breakdown = <<>>
    /\ found_category = None
    /\ found_size = None
    /\ price_range_str = ""
    /\ pc = "idle"
    /\ exc = "none"
    /\ ServicesIdle

CallerCall(c) ==
    /\ calls[c].pc = "idle"
    /\ calls' = [calls EXCEPT ![c] = frame_call(locals(c))]
    /\ UNCHANGED pricing_database
    /\ UNCHANGED parseVars
    /\ UNCHANGED budgetVars
    /\ UNCHANGED serviceVars

CallerLoopBody(c) ==
    /\ calls[c].pc = "loop"
    /\ calls[c].idx <= Len(calls[c].items)
    /\ calls' = [calls EXCEPT ![c] = frame_body(locals(c))]
    /\ UNCHANGED pricing_database
    /\ UNCHANGED parseVars
    /\ UNCHANGED budgetVars
    /\ UNCHANGED serviceVars

CallerReturn(c) ==
    /\ calls[c].pc = "loop"
    /\ calls[c].idx > Len(calls[c].items)
    /\ calls' = [calls EXCEPT ![c] = frame_return(locals(c))]
    /\ UNCHANGED pricing_database
    /\ UNCHANGED parseVars
    /\ UNCHANGED budgetVars
    /\ UNCHANGED serviceVars

NextCallers == \E c \in Callers : CallerCall(c) \/ CallerLoopBody(c) \/ CallerReturn(c)

SpecCallers == InitCallers /\ [][NextCallers]_vars

EngineIdle == ParseIdle /\ BudgetIdle /\ CallersIdle

---------------------------------------------------------------------------
(* servers/stripe_checkout_api.py: create_checkout_session and               *)
(* stripe_webhook.  A handler runs from its first statement to its answer    *)
(* without yielding to another request once the body is read, so each is one *)
(* step.  What Stripe and Firestore answer is part of the request.           *)

\* lines 76-80, with two of the three price ids set in the environment
PRICE_IDS == [weekly |-> "price_weekly", monthly |-> "price_monthly", annual |-> None]
PriceIdValues == {PRICE_IDS[k] : k \in DOMAIN PRICE_IDS}

HTTPException(status_code, detail) ==
    [status_code |-> status_code, detail |-> detail, body |-> NoBody]
Ok(body) == [status_code |-> 200, detail |-> "", body |-> body]

\* the session stripe.checkout.Session.create makes of the request
SessionOf(req) == [client_reference_id |-> req.userId, price |-> req.priceId]

CheckoutRequests ==
    {[endpoint |-> "create-checkout-session", userId |-> "user_1", priceId |-> p,
      planType |-> "weekly", credits |-> 50, stripe_api |-> a] :
        p \in {"price_weekly", "price_other"},
        a \in {"ok", "StripeError", "Exception"}}

\* lines 123-159, the body of the try: the exception it raises, or the
\* answer and the session created
checkout_try(req) ==
    IF req.priceId \notin PriceIdValues
    THEN [raised |-> "HTTPException", message |-> "400: Invalid price ID",
          response |-> HTTPException(400, "Invalid price ID"), created |-> {}]
    ELSE IF req.stripe_api # "ok"
    THEN [raised |-> req.stripe_api, message |-> "No such price",
          response |-> NoResponse, created |-> {}]
    ELSE [raised |-> "none", message |-> "",
          response |-> Ok([sessionId |-> "cs_test", url |-> "https://checkout.stripe.com/cs_test"]),
          created |-> {SessionOf(req)}]

\* lines 161-166: StripeError is answered 400; every other Exception, the
\* HTTPException of line 126 among them, is answered 500
checkout_except(t) ==
    IF t.raised = "none" THEN t.response
    ELSE IF t.raised = "StripeError"
    THEN HTTPException(400, "Stripe error: " \o t.message)
    ELSE HTTPException(500, "Internal server error: " \o t.message)

\* lines 119-166
create_checkout_session(key, req) ==
    IF key = None
    THEN [response |-> HTTPException(500, "Stripe not configured. Missing STRIPE_SECRET_KEY."),
          created |-> {}]
    ELSE [response |-> checkout_except(checkout_try(req)),
          created |-> checkout_try(req).created]

\* int(text) of the metadata: [ok |-> FALSE] stands for ValueError
py_int(text) ==
    IF text # "" /\ \A i \in 1..Len(text) : SubSeq(text, i, i) \in Digits
    THEN [ok |-> TRUE, v |-> DigitsToInt(text)]
    ELSE [ok |-> FALSE, v |-> 0]

\* the event of a delivery: userId and credits are the metadata of the
\* session, the payment intent or the subscription (credits "0" when the
\* key is missing), subscription what the invoice names, firestore what
\* _add_credits_to_firestore does when it is called
Event(id, type, userId, credits, subscription, firestore) ==
    [id |-> id, type |-> type, userId |-> userId, credits |-> credits,
     subscription |-> subscription, firestore |-> firestore]

EventsOf(id) ==
    {Event(id, "checkout.session.completed", "user_1", "50", None, "ok"),
     Event(id, "checkout.session.completed", "user_1", "50", None, "Exception"),
     Event(id, "checkout.session.completed", "user_1", "50", None, "ImportError"),
     Event(id, "checkout.session.completed", "user_1", "abc", None, "ok"),
     Event(id, "checkout.session.completed", None, "0", None, "Exception"),
     Event(id, "payment_intent.succeeded", "user_1", "50", None, "ok"),
     Event(id, "payment_intent.succeeded", "user_1", "50", None, "Exception"),
     Event(id, "payment_intent.succeeded", None, "50", None, "ok"),
     Event(id, "payment_intent.succeeded", "user_1", "0", None, "ok"),
     Event(id, "payment_intent.succeeded", "user_1", "abc", None, "ok"),
     Event(id, "invoice.payment_succeeded", "user_1", "50", None, "ok"),
     Event(id, "invoice.payment_succeeded", "user_1", "50", "sub_gone", "ok"),
     Event(id, "invoice.payment_succeeded", "user_1", "50", "sub_1", "ok"),
     Event(id, "invoice.payment_succeeded", "user_1", "50", "sub_1", "Exception"),
     Event(id, "invoice.payment_succeeded", "user_1", "abc", "sub_1", "ok"),
     Event(id, "invoice.payment_succeeded", None, "50", "sub_1", "ok"),
     Event(id, "customer.subscription.deleted", "user_1", "0", None, "ok"),
     Event(id, "charge.refunded", "user_1", "0", None, "ok")}

NoEvent == Event("", "none", None, "0", None, "ok")

Delivery(signature, secret, payload, event) ==
    [endpoint |-> "webhook", stripe_signature |-> signature, webhook_secret |-> secret,
     payload |-> payload, event |-> event]

\* what reaches /api/webhook: calls without a signature or with a wrong one,
\* a server without its secret, a body that is no JSON, and events
Deliveries ==
    {Delivery(None, "whsec", "event", NoEvent),
     Delivery("t=1,v1=bad", "whsec", "event", NoEvent),
     Delivery("t=1,v1=good", None, "event", NoEvent),
     Delivery("t=1,v1=good", "whsec", "malformed", NoEvent)}
    \cup {Delivery("t=1,v1=good", "whsec", "event", e) : e \in UNION {EventsOf(id) : id \in EventIds}}

\* lines 287-290 and 308-310: credits are added when there is a user and a
\* positive number of credits; what _add_credits_to_firestore raises is
\* swallowed
grant_if_any(e) ==
    [raised |-> "none",
     grant |-> e.userId # None /\ py_int(e.credits).v > 0 /\ e.firestore = "ok"]

\* lines 261-320: the exception that leaves the branch of the event's type,
\* and whether credits were added
handle_event(e) ==
    IF e.type = "checkout.session.completed"
    THEN IF ~py_int(e.credits).ok THEN [raised |-> "ValueError", grant |-> FALSE]
         ELSE [raised |-> "none", grant |-> e.firestore = "ok"]
    ELSE IF e.type = "payment_intent.succeeded"
    THEN IF ~py_int(e.credits).ok THEN [raised |-> "ValueError", grant |-> FALSE]
         ELSE grant_if_any(e)
    ELSE IF e.type = "invoice.payment_succeeded"
    THEN IF e.subscription # "sub_1" \/ ~py_int(e.credits).ok
         THEN [raised |-> "none", grant |-> FALSE]
         ELSE grant_if_any(e)
    ELSE [raised |-> "none", grant |-> FALSE]

\* variant of mark_processed that never clears the set
mark_processed_keeps_all(processed, event_id) == processed \cup {event_id}

\* lines 323-326
mark_processed(processed, event_id) ==
    IF Cardinality(processed \cup {event_id}) > MaxProcessed THEN {}
    ELSE processed \cup {event_id}

Unprocessed(processed, resp) == [response |-> resp, processed |-> processed, grant |-> FALSE]

\* lines 253-327 for an event of a verified delivery
webhook_event(processed, e) ==
    IF e.id \in processed
    THEN Unprocessed(processed, Ok([status |-> "already_processed"]))
    ELSE IF handle_event(e).raised = "ValueError"
    THEN Unprocessed(processed, HTTPException(400, "Invalid payload"))
    ELSE [response |-> Ok([status |-> "success"]),
          processed |-> mark_processed(processed, e.id),
          grant |-> handle_event(e).grant]

\* lines 239-337: the answer, processed_event_ids afterwards, and whether
\* credits were added
stripe_webhook(processed, d) ==
    IF d.stripe_signature = None
    THEN Unprocessed(processed, HTTPException(400, "Missing Stripe signature"))
    ELSE IF d.webhook_secret = None
    THEN Unprocessed(processed, HTTPException(500, "Webhook secret not configured"))
    ELSE IF d.stripe_signature # "t=1,v1=good"
    THEN Unprocessed(processed, HTTPException(400, "Invalid signature"))
    ELSE IF d.payload = "malformed"
    THEN Unprocessed(processed, HTTPException(400, "Invalid payload"))
    ELSE webhook_event(processed, d.event)

\* the server goes on until some event has been credited twice
Serving == \A e \in EventIds : granted[e] <= 1

\* the request is answered with what the handler returned
Answered(req, returned) ==
    /\ request' = req
    /\ response' = returned.response

\* POST /api/create-checkout-session
CreateCheckoutSession ==
    /\ Serving
    /\ \E req \in CheckoutRequests :
          LET returned == create_checkout_session(STRIPE_SECRET_KEY, req)
          IN /\ Answered(req, returned)
             /\ sessions' = sessions \cup returned.created
    /\ UNCHANGED <<STRIPE_SECRET_KEY, processed_event_ids, granted>>
    /\ UNCHANGED <<video, stream, gemini>>
    /\ UNCHANGED engineVars

\* POST /api/webhook
StripeWebhook ==
    /\ Serving
    /\ \E d \in Deliveries :
          LET returned == stripe_webhook(processed_event_ids, d)
          IN /\ Answered(d, returned)
             /\ processed_event_ids' = returned.processed
             /\ granted' = IF returned.grant
                            THEN [granted EXCEPT ![d.event.id] = @ + 1]
                            ELSE granted
    /\ UNCHANGED <<STRIPE_SECRET_KEY, sessions>>
    /\ UNCHANGED <<video, stream, gemini>>
    /\ UNCHANGED engineVars

NextStripe == CreateCheckoutSession \/ StripeWebhook

\* the server as it starts, with or without its Stripe key
InitStripe ==
    /\ STRIPE_SECRET_KEY \in {None, "sk_test"}
    /\ processed_event_ids = {}
    /\ granted = [e \in EventIds |-> 0]
    /\ sessions = {}
    /\ request = NoRequest
    /\ response = NoResponse
    /\ VideoIdle /\ StreamIdle /\ GeminiIdle
    /\ EngineIdle

SpecStripe == InitStripe /\ [][NextStripe]_vars

---------------------------------------------------------------------------
(* video_generator.py: generate_transformation_video.  video.env is what the *)
(* environment and the Freepik API answer to the call; polled, downloaded    *)
(* and merged record the requests and the ffmpeg run the call has made.      *)

\* API_KEY and check_ffmpeg(); per video what the POST that starts it gives
\* (a task id, or None after an error or an answer other than 200), what
\* polling its task gives (a URL or None) and whether the download of a URL
\* succeeds; whether ffmpeg merges
VideoEnvs ==
    [API_KEY : {None, "fpk_test"},
     ffmpeg : BOOLEAN,
     started : {<<a, b>> : a \in {None, "task_original"}, b \in {None, "task_redesign"}},
     completed : {<<a, b>> : a \in {None, "https://cdn/original.mp4"},
                             b \in {None, "https://cdn/redesign.mp4"}},
     downloads : {<<a, b>> : a \in BOOLEAN, b \in BOOLEAN},
     merges : BOOLEAN]

VideoFrame(env, at, task_ids, video_urls, polled, downloaded, merged, result) ==
    [pc |-> at, env |-> env, task_ids |-> task_ids, video_urls |-> video_urls,
     polled |-> polled, downloaded |-> downloaded, merged |-> merged, result |-> result]

NoResult == [status |-> "none", error |-> ""]
ErrorResult(message) == [status |-> "error", error |-> message]

\* lines 173-187: the pair of what the two calls of generate_single_video return
generate_dual_videos(env) == env.started

\* lines 239-253: the pair of what the two calls of poll_single_video return
poll_dual_videos(env, task_ids) == env.completed

\* lines 72 and 84: not pair or len(pair) != 2
not_a_pair(pair) == pair = <<>> \/ Len(pair) # 2

\* lines 255-273: requests.get(None) raises; otherwise the API decides
download_video(env, url, n) == url # None /\ env.downloads[n]

\* lines 55-63
VideoCheck ==
    /\ video.pc = "called"
    /\ video' = IF video.env.API_KEY = None
                 THEN [video EXCEPT !.pc = "raised",
                                    !.result = ErrorResult("FREEPIK_API_KEY not found in environment")]
                 ELSE IF ~video.env.ffmpeg
                 THEN [video EXCEPT !.pc = "returned",
                                    !.result = ErrorResult("ffmpeg is not installed. Please install it with: brew install ffmpeg")]
                 ELSE [video EXCEPT !.pc = "start"]
    /\ UNCHANGED <<stripeVars, stream, gemini>>
    /\ UNCHANGED engineVars

\* lines 70-78
VideoStart ==
    /\ video.pc = "start"
    /\ LET task_ids == generate_dual_videos(video.env)
       IN video' = IF not_a_pair(task_ids)
                   THEN [video EXCEPT !.pc = "returned", !.task_ids = task_ids,
                                      !.result = ErrorResult("Failed to initiate dual video generation")]
                   ELSE [video EXCEPT !.pc = "poll", !.task_ids = task_ids]
    /\ UNCHANGED <<stripeVars, stream, gemini>>
    /\ UNCHANGED engineVars

\* lines 82-90
VideoPoll ==
    /\ video.pc = "poll"
    /\ LET video_urls == poll_dual_videos(video.env, video.task_ids)
       IN video' = IF not_a_pair(video_urls)
                   THEN [video EXCEPT !.pc = "returned", !.video_urls = video_urls,
                                      !.polled = {video.task_ids[1], video.task_ids[2]},
                                      !.result = ErrorResult("Failed to complete dual video generation")]
                   ELSE [video EXCEPT !.pc = "download", !.video_urls = video_urls,
                                      !.polled = {video.task_ids[1], video.task_ids[2]}]
    /\ UNCHANGED <<stripeVars, stream, gemini>>
    /\ UNCHANGED engineVars

\* lines 94 and 275-289: both downloads are submitted and run to their end;
\* the exception of one leaves the call through line 119
VideoDownload ==
    /\ video.pc = "download"
    /\ LET done == {n \in 1..2 : download_video(video.env, video.video_urls[n], n)}
       IN video' = IF done = {1, 2}
                   THEN [video EXCEPT !.pc = "merge", !.downloaded = done]
                   ELSE [video EXCEPT !.pc = "returned", !.downloaded = done,
                                      !.result = ErrorResult("download failed")]
    /\ UNCHANGED <<stripeVars, stream, gemini>>
    /\ UNCHANGED engineVars

\* lines 97-124
VideoMerge ==
    /\ video.pc = "merge"
    /\ video' = IF video.env.merges
                 THEN [video EXCEPT !.pc = "returned", !.merged = TRUE,
                                    !.result = [status |-> "completed", error |-> ""]]
                 ELSE [video EXCEPT !.pc = "returned", !.merged = TRUE,
                                    !.result = ErrorResult("ffmpeg failed")]
    /\ UNCHANGED <<stripeVars, stream, gemini>>
    /\ UNCHANGED engineVars

NextVideo == VideoCheck \/ VideoStart \/ VideoPoll \/ VideoDownload \/ VideoMerge

\* a caller has just called generate_transformation_video
InitVideo ==
    /\ video \in {VideoFrame(env, "called", <<>>, <<>>, {}, {}, FALSE, NoResult) : env \in VideoEnvs}
    /\ StripeIdle /\ StreamIdle /\ GeminiIdle
    /\ EngineIdle

SpecVideo == InitVideo /\ [][NextVideo]_vars

\* C26: when either video fails to start, generate_transformation_video
\* returns status 'error' with 'Failed to initiate dual video generation' and
\* polls, downloads and merges nothing.
C26_FailedStartEndsCall ==
    (/\ video.pc \notin {"called", "start", "raised"}
     /\ video.task_ids # <<>>
     /\ None \in {video.task_ids[1], video.task_ids[2]})
        => /\ video.pc = "returned"
           /\ video.result = ErrorResult("Failed to initiate dual video generation")
           /\ video.polled = {}
           /\ video.downloaded = {}
           /\ ~video.merged

---------------------------------------------------------------------------
(* servers/api.py: the generator generate_ad_stream.  stream.events is the   *)
(* sequence of the 'step' values of the events yielded so far; stream.env is *)
(* what the agent answers.                                                   *)

\* how many products the search finds, whether the agent kept its reasoning
\* and how many search queries it lists, whether the callback collected
\* their results, the step that raises (if any), and whether
\* generate_image_with_freepik returns a result
StreamEnvs ==
    {[products |-> p, reasoning |-> r, queries |-> q, collected |-> c, raises |-> x,
      image |-> i] :
        p \in 0..MaxProducts, r \in BOOLEAN, q \in 0..MaxQueries, c \in BOOLEAN,
        x \in {"none", "search_products", "generate_ad_copy",
                "generate_image_prompt_with_all_products", "generate_image_with_freepik"},
        i \in BOOLEAN}

\* the frame of the generator: generated_images is the local of that name,
\* bound or not
StreamFrame(env) ==
    [pc |-> "search", env |-> env, events |-> <<>>, generated_images |-> "unbound"]

\* lines 372-374: the exception is reported and the generator ends
stream_error(f) == [f EXCEPT !.pc = "done", !.events = @ \o <<"error">>]

RECURSIVE search_events(_, _)
\* lines 117-137: an event per search query, and one for its results when
\* the callback collected them
search_events(queries, collected) ==
    IF queries = 0 THEN <<>>
    ELSE search_events(queries - 1, collected)
         \o (IF collected THEN <<"searching", "search_results">> ELSE <<"searching">>)

\* lines 92-137
StreamSearch ==
    /\ stream.pc = "search"
    /\ stream' = IF stream.env.raises = "search_products" THEN stream_error(stream)
                  ELSE IF stream.env.products = 0 THEN stream_error(stream)
                  ELSE IF stream.env.reasoning
                  THEN [stream EXCEPT !.pc = "copy",
                           !.events = <<"reasoning">>
                                      \o search_events(stream.env.queries, stream.env.collected)]
                  ELSE [stream EXCEPT !.pc = "copy"]
    /\ UNCHANGED <<stripeVars, video, gemini>>
    /\ UNCHANGED engineVars

\* lines 139-155
StreamCopy ==
    /\ stream.pc = "copy"
    /\ stream' = IF stream.env.raises = "generate_ad_copy"
                  THEN stream_error([stream EXCEPT !.events = @ \o <<"generating_copy">>])
                  ELSE [stream EXCEPT !.pc = "prompt",
                           !.events = @ \o <<"generating_copy", "copy_generated">>]
    /\ UNCHANGED <<stripeVars, video, gemini>>
    /\ UNCHANGED engineVars

\* lines 157-171
StreamPrompt ==
    /\ stream.pc = "prompt"
    /\ stream' = IF stream.env.raises = "generate_image_prompt_with_all_products"
                  THEN stream_error([stream EXCEPT !.events = @ \o <<"generating_prompts">>])
                  ELSE [stream EXCEPT !.pc = "image",
                           !.events = @ \o <<"generating_prompts", "prompts_generated",
                                             "generating_image">>]
    /\ UNCHANGED <<stripeVars, video, gemini>>
    /\ UNCHANGED engineVars

\* lines 173-321: generated_images is assigned in the branch of a result only
StreamImage ==
    /\ stream.pc = "image"
    /\ stream' = IF stream.env.raises = "generate_image_with_freepik"
                  THEN stream_error([stream EXCEPT !.events = @ \o <<"image_processing">>])
                  ELSE IF stream.env.image
                  THEN [stream EXCEPT !.pc = "final", !.generated_images = "bound",
                           !.events = @ \o <<"image_processing", "image_converting",
                                             "image_complete">>]
                  ELSE [stream EXCEPT !.pc = "final",
                           !.events = @ \o <<"image_processing", "image_error">>]
    /\ UNCHANGED <<stripeVars, video, gemini>>
    /\ UNCHANGED engineVars

\* lines 323-370: final_ad_data reads generated_images (line 344), which
\* raises UnboundLocalError when the name is not bound
StreamFinal ==
    /\ stream.pc = "final"
    /\ stream' = IF stream.generated_images = "unbound" THEN stream_error(stream)
                  ELSE [stream EXCEPT !.pc = "done", !.events = @ \o <<"complete">>]
    /\ UNCHANGED <<stripeVars, video, gemini>>
    /\ UNCHANGED engineVars

NextStream == StreamSearch \/ StreamCopy \/ StreamPrompt \/ StreamImage \/ StreamFinal

\* a client has just posted to /api/create-ad
InitStream ==
    /\ stream \in {StreamFrame(env) : env \in StreamEnvs}
    /\ StripeIdle /\ VideoIdle /\ GeminiIdle
    /\ EngineIdle

SpecStream == InitStream /\ [][NextStream]_vars

Emitted(step) == \E n \in 1..Len(stream.events) : stream.events[n] = step
LastEvent == stream.events[Len(stream.events)]

\* C27: when products were found and the image generation returns no result,
\* the stream emits 'image_error' and still ends with 'complete'; it ends with
\* 'error' only when no product was found or a step raised.
C27_ImageFailureIsNotFatal ==
    stream.pc = "done" =>
        /\ (Emitted("image_error") => LastEvent = "complete")
        /\ (LastEvent = "error" => (stream.env.products = 0 \/ stream.env.raises # "none"))

---------------------------------------------------------------------------
(* scripts/freepik_ingest.py: analyze_image_with_gemini, and its copy        *)
(* analyze_image of scripts/clean_and_enrich.py.  gemini.outcomes is what     *)
(* the calls of model.generate_content have given so far, gemini.waits the   *)
(* seconds slept after them.                                                 *)

max_retries == 3
base_delay == 5

\* the position of the first occurrence of sub in s, 0 when there is none
Find(sub, s) ==
    IF Contains(sub, s)
    THEN CHOOSE i \in 1..Len(s) :
            /\ SubSeq(s, i, i + Len(sub) - 1) = sub
            /\ \A j \in 1..(i - 1) : SubSeq(s, j, j + Len(sub) - 1) # sub
    ELSE 0

\* s.split(sep)[0] and the text after the first sep
Before(s, sep) == IF Contains(sep, s) THEN SubSeq(s, 1, Find(sep, s) - 1) ELSE s
After(s, sep) == SubSeq(s, Find(sep, s) + Len(sep), Len(s))

\* the fence of a markdown code block, three backquotes in the source; a
\* string of this module cannot hold a backquote, so it is written with
\* three apostrophes
Fence == "'''"

\* lines 212-216: the JSON text inside a markdown code block
fenced_text(text) ==
    IF Contains(Fence \o "json", text)
    THEN Strip(Before(After(text, Fence \o "json"), Fence))
    ELSE IF Contains(Fence, text) THEN Strip(Before(After(text, Fence), Fence))
    ELSE text

\* the record the model is asked for
Analysis(specific_name, price_estimate, description) ==
    [specific_name |-> specific_name, price_estimate |-> price_estimate,
     description |-> description]

\* the text of the record, as the model writes it
JsonText == "{\"specific_name\": \"Acer palmatum\", \"price_estimate\": \"$50\", \"description\": \"A maple\"}"

\* json.loads on the texts of this model: [ok |-> FALSE] stands for
\* JSONDecodeError
json_loads(text) ==
    IF text = JsonText
    THEN [ok |-> TRUE, v |-> Analysis("Acer palmatum", "$50", "A maple")]
    ELSE [ok |-> FALSE, v |-> Analysis("", "", "")]

\* what a call of model.generate_content gives: the text of a response, or
\* the message of an exception
GeminiOutcomes ==
    {[kind |-> "response", text |-> t] :
        t \in {JsonText, " " \o Fence \o "json " \o JsonText \o " " \o Fence \o " ",
                Fence \o " " \o JsonText \o " " \o Fence,
                "Here is the analysis: " \o Fence \o "json " \o JsonText \o Fence
                    \o " I hope it helps.",
                "I cannot identify this image.", ""}}
    \cup {[kind |-> "error", text |-> t] :
            t \in {"429 Resource has been exhausted (e.g. check quota).",
                    "Quota exceeded for model gemini-2.0-flash (HTTP 429)",
                    "500 An internal error has occurred.",
                    "Deadline Exceeded"}}

\* lines 228-232 of freepik_ingest.py and line 94 of clean_and_enrich.py: what
\* is returned when no attempt gave a record
DefaultOf(script) ==
    IF script = "freepik_ingest" THEN Analysis("", "", "") ELSE [empty |-> TRUE]

GeminiFrame(script) ==
    [pc |-> "loop", script |-> script, attempt |-> 0, outcomes |-> <<>>, waits |-> <<>>,
     result |-> [empty |-> TRUE]]

\* variant of analyze_except that waits and goes on after every error
analyze_except_retries_all(g, message) ==
    [g EXCEPT !.waits = Append(@, base_delay * Pow2(g.attempt)), !.attempt = @ + 1]

\* lines 220-226: the handler of an exception with the text message
analyze_except(g, message) ==
    IF Contains("429", message)
    THEN [g EXCEPT !.waits = Append(@, base_delay * Pow2(g.attempt)), !.attempt = @ + 1]
    ELSE [g EXCEPT !.pc = "break"]

\* lines 193-218: the body of the try for a response with the text text
analyze_try(g, text) ==
    IF json_loads(fenced_text(Strip(text))).ok
    THEN [g EXCEPT !.pc = "returned", !.result = json_loads(fenced_text(Strip(text))).v]
    ELSE analyze_except(g, "Expecting value: line 1 column 1 (char 0)")

\* lines 192-226: one iteration of the for loop
analyze_attempt(g, outcome) ==
    IF outcome.kind = "response" THEN analyze_try(g, outcome.text)
    ELSE analyze_except(g, outcome.text)

GeminiAttempt ==
    /\ gemini.pc = "loop"
    /\ gemini.attempt < max_retries
    /\ \E outcome \in GeminiOutcomes :
          gemini' = analyze_attempt([gemini EXCEPT !.outcomes = Append(@, outcome)], outcome)
    /\ UNCHANGED <<stripeVars, video, stream>>
    /\ UNCHANGED engineVars

\* lines 228-232: after the loop, left by break or by the end of the range
GeminiReturn ==
    /\ \/ gemini.pc = "break"
       \/ gemini.pc = "loop" /\ gemini.attempt >= max_retries
    /\ gemini' = [gemini EXCEPT !.pc = "returned", !.result = DefaultOf(gemini.script)]
    /\ UNCHANGED <<stripeVars, video, stream>>
    /\ UNCHANGED engineVars

NextGemini == GeminiAttempt \/ GeminiReturn

\* an ingest script has just called the analysis of an image
InitGemini ==
    /\ gemini \in {GeminiFrame(script) : script \in {"freepik_ingest", "clean_and_enrich"}}
    /\ StripeIdle /\ VideoIdle /\ StreamIdle
    /\ EngineIdle

\* the interpreter goes on running the call
SpecGemini == InitGemini /\ [][NextGemini]_vars /\ WF_vars(NextGemini)

IsRateLimit(outcome) == outcome.kind = "error" /\ Contains("429", outcome.text)
Succeeded(outcome) == outcome.kind = "response" /\ json_loads(fenced_text(Strip(outcome.text))).ok

\* the calls made, the retries and the waits of the loop so far
RetryLoopInv ==
    /\ Len(gemini.outcomes) <= max_retries
    /\ \A n \in 1..(Len(gemini.outcomes) - 1) : IsRateLimit(gemini.outcomes[n])
    /\ Len(gemini.waits) = Cardinality({n \in 1..Len(gemini.outcomes) :
                                            IsRateLimit(gemini.outcomes[n])})
    /\ \A n \in 1..Len(gemini.waits) : gemini.waits[n] = 5 * Pow2(n - 1)
    /\ (gemini.outcomes # <<>> /\ ~IsRateLimit(gemini.outcomes[Len(gemini.outcomes)]))
          => gemini.pc \in {"break", "returned"}
    /\ gemini.pc # "raised"
    /\ (gemini.pc = "returned" /\ gemini.script = "freepik_ingest"
         /\ ~Succeeded(gemini.outcomes[Len(gemini.outcomes)]))
          => gemini.result = Analysis("", "", "")

\* C28: the retry loop ends after at most 3 calls of the model: it goes on
\* only after an error whose text contains '429', waiting 5, 10 and 20
\* seconds, stops at once on any other error, and returns the record of
\* empty strings, raising nothing, when no attempt succeeded.
C28_RetryLoopTerminates ==
    /\ []RetryLoopInv
    /\ <>(gemini.pc = "returned")

C28_Witness ==
    /\ gemini.pc = "returned"
    /\ gemini.script = "freepik_ingest"
    /\ Len(gemini.outcomes) = 3
    /\ gemini.waits = <<5, 10, 20>>
    /\ gemini.result = Analysis("", "", "")

---------------------------------------------------------------------------
(* Properties of the Stripe server, under SpecStripe *)

\* the request handled last is a delivery that passed the signature check
\* and carries an event
Verified(d) ==
    /\ d.endpoint = "webhook"
    /\ d.stripe_signature = "t=1,v1=good"
    /\ d.webhook_secret # None
    /\ d.payload = "event"

\* C22: over any sequence of deliveries no event id is credited more than
\* once: a delivery of an event processed before grants no credits.
C22_CreditedAtMostOnce == \A e \in EventIds : granted[e] <= 1

\* C23: a request whose priceId is not a configured price id is answered
\* HTTP 400 'Invalid price ID', and no checkout session is created for it.
C23_InvalidPriceIdIs400 ==
    (/\ request.endpoint = "create-checkout-session"
     /\ STRIPE_SECRET_KEY # None
     /\ request.priceId \notin PriceIdValues)
        => /\ response = HTTPException(400, "Invalid price ID")
           /\ SessionOf(request) \notin sessions

\* C24: when adding the credits fails while checkout.session.completed is
\* handled, the answer is {'status': 'success'} and the event id is in
\* processed_event_ids afterwards, so that a redelivery is skipped.
C24_CreditFailureIsRecorded ==
    [][(/\ Verified(request')
        /\ request'.event.type = "checkout.session.completed"
        /\ request'.event.id \notin processed_event_ids
        /\ py_int(request'.event.credits).ok
        /\ request'.event.firestore # "ok")
           => /\ response' = Ok([status |-> "success"])
              /\ request'.event.id \in processed_event_ids']_vars

\* C25: after every return processed_event_ids holds at most the 10000 ids
\* (here MaxProcessed), and a call to the webhook that ends in an error
\* leaves the set as it was.
C25_SetIsBounded ==
    /\ [](Cardinality(processed_event_ids) <= MaxProcessed)
    /\ [][(request'.endpoint = "webhook" /\ response'.status_code # 200)
             => processed_event_ids' = processed_event_ids]_vars

C25_Witness ==
    /\ Cardinality(processed_event_ids) = MaxProcessed
    /\ request.endpoint = "webhook"
    /\ response = HTTPException(400, "Invalid signature")

---------------------------------------------------------------------------
(* Properties of parse_price_range, under SpecParse *)

HasDigit(s) == \E i \in 1..Len(s) : SubSeq(s, i, i) \in Digits

\* the text holds one of the words float() reads as a number
HasFloatWord(s) ==
    \E i \in 1..(Len(s) - 2) : Lower(SubSeq(s, i, i + 2)) \in {"nan", "inf"}

\* an amount as the price forms write it: an optional '$', then digits with
\* thousands separators and at most one '.'
IsAmountText(s) ==
    LET t == IF s # "" /\ Head(s) = "$" THEN Tail(s) ELSE s
    IN /\ HasDigit(t)
       /\ \A i \in 1..Len(t) : SubSeq(t, i, i) \in Digits \cup {",", "."}
       /\ Cardinality({i \in 1..Len(t) : SubSeq(t, i, i) = "."}) <= 1

\* the form '$A - $B'
IsRangeForm(s) ==
    LET parts == Split(s, "-")
    IN Len(parts) = 2 /\ IsAmountText(Strip(parts[1])) /\ IsAmountText(Strip(parts[2]))

\* the forms '$A' and '$A+'
IsSingleForm(s) ==
    LET t == Strip(s)
    IN \/ IsAmountText(t)
       \/ /\ t # ""
          /\ SubSeq(t, Len(t), Len(t)) = "+"
          /\ IsAmountText(SubSeq(t, 1, Len(t) - 1))

\* C7: parse_price_range raises for no string, and a string that writes no
\* number at all (no digit and no 'nan' or 'inf' in it), such as 'garbage'
\* and '', yields (0.0, 0.0).
C7_NeverRaises ==
    parsed # NoCall =>
        /\ parsed.exc = "none"
        /\ (~HasDigit(price_str) /\ ~HasFloatWord(price_str))
              => parsed = Returned(Zero, Zero)

C7_Witness ==
    /\ price_str \in {"garbage", ""}
    /\ parsed = Returned(Zero, Zero)

\* C8 (as claimed): every string that is neither of the form '$A - $B' nor of
\* the form '$A' or '$A+' yields (0.0, 0.0).
C8_OtherFormsYieldZero ==
    (parsed # NoCall /\ ~IsRangeForm(price_str) /\ ~IsSingleForm(price_str))
        => parsed = Returned(Zero, Zero)

\* C9: '$<low> - $<high>' for low <= high parses back to exactly (low, high),
\* with or without thousands separators and whatever the whitespace around
\* the hyphen.
C9_RangeRoundTrip ==
    (parsed # NoCall /\ origin.form = "range")
        => parsed = Returned(origin.low, origin.high)

C9_Witness ==
    /\ origin.form = "range"
    /\ Contains(",", price_str)
    /\ ~Contains(" ", price_str)
    /\ parsed = Returned(FromInt(1000), Norm(12345, 1))

\* C10: '$A' and '$A+' parse to (A, A).
C10_SingleValue ==
    (parsed # NoCall /\ origin.form = "single")
        => parsed = Returned(origin.low, origin.low)

C10_Witness ==
    /\ origin.form = "single"
    /\ price_str = "$800+"
    /\ parsed = Returned(FromInt(800), FromInt(800))

RECURSIVE CountChar(_, _)
\* s.count(c) for a one-character c
CountChar(s, c) ==
    IF s = "" THEN 0
    ELSE (IF Head(s) = c THEN 1 ELSE 0) + CountChar(Tail(s), c)

\* C11: every string with more than one hyphen yields (0.0, 0.0), a
\* well-formed range inside a longer text included.
C11_ManyHyphensYieldZero ==
    (parsed # NoCall /\ CountChar(price_str, "-") > 1)
        => parsed = Returned(Zero, Zero)

C11_Witness ==
    /\ price_str = "pre-owned $10 - $20"
    /\ IsRangeForm(SubSeq(price_str, 11, Len(price_str)))
    /\ parsed = Returned(Zero, Zero)

\* C21: every category of the table has a size entry, and every price string
\* of the table parses to bounds low <= high other than (0.0, 0.0).
C21_TableIsWellFormed ==
    /\ \A i \in 1..Len(PRICING_DATABASE) : Len(PRICING_DATABASE[i].sizes) >= 1
    /\ (parsed # NoCall /\ origin.form = "table")
          => /\ parsed.exc = "none"
             /\ FLeq(parsed.low, parsed.high)
             /\ parsed # Returned(Zero, Zero)

C21_Witness ==
    /\ origin.form = "table"
    /\ price_str = "$300 - $600"
    /\ parsed = Returned(FromInt(300), FromInt(600))

\* C30 (as claimed): for every string both returned numbers are >= 0.
C30_BoundsAtLeastZero ==
    parsed # NoCall => FLeq(Zero, parsed.low) /\ FLeq(Zero, parsed.high)

\* C30 (amended): for every string no returned number is negative: each is
\* >= 0 or nan.
C30_NoNegativeBound ==
    parsed # NoCall =>
        /\ parsed.low = NaN \/ FLeq(Zero, parsed.low)
        /\ parsed.high = NaN \/ FLeq(Zero, parsed.high)

C30_Witness ==
    /\ price_str = "-1-2"
    /\ parsed = Returned(Zero, Zero)

---------------------------------------------------------------------------
(* Properties of calculate_budget, under Spec *)

Min(S) == CHOOSE x \in S : \A y \in S : x <= y

\* the fields of an item after the defaults of lines 48-51
NameOf(it) == name_of(it)
CategoryOf(it) == category_of(it)
SizeOf(it) == size_of(it)
QuantityOf(it) == quantity_of(it)

\* name, category and size are strings and the quantity is an int
Typed(it) ==
    /\ NameOf(it).t = "str"
    /\ CategoryOf(it).t = "str"
    /\ SizeOf(it).t = "str"
    /\ QuantityOf(it).t = "int"

TypedItems == {it \in Items : Typed(it)}

\* the first category key, in table order, that is a substring of the
\* lower-cased category or of the lower-cased name; None when there is none
ExpectedCategory(it) ==
    LET m == {i \in 1..Len(PRICING_DATABASE) :
                \/ Contains(PRICING_DATABASE[i].category, Lower(CategoryOf(it).s))
                \/ Contains(PRICING_DATABASE[i].category, Lower(NameOf(it).s))}
    IN IF m = {} THEN None ELSE PRICING_DATABASE[Min(m)].category

ExpectedCategoryOf == Tabulated([it \in TypedItems |-> ExpectedCategory(it)])

\* the size keys of the expected category that are a substring of the size,
\* lower-cased or as written, as positions in that category's mapping
SizeMatches(it, lowered) ==
    LET sp == SizePrices(ExpectedCategory(it))
        size == IF lowered THEN Lower(SizeOf(it).s) ELSE SizeOf(it).s
    IN {j \in 1..Len(sp) : Contains(sp[j][1], size)}

SizeMatchesOf ==
    Tabulated([it \in {x \in TypedItems : ExpectedCategory(x) # None} |->
                  [lowered |-> SizeMatches(it, TRUE), written |-> SizeMatches(it, FALSE)]])

\* every price string an item can resolve to, parsed
BoundsOf ==
    Tabulated([s \in {"$0 - $0"} \cup
                       UNION {{PRICING_DATABASE[i].sizes[j][2] :
                                  j \in 1..Len(PRICING_DATABASE[i].sizes)} :
                              i \in 1..Len(PRICING_DATABASE)} |->
                  parse_price_range(s)])

\* the loop has just completed the iteration of items[idx - 1]
Completed == pc \in {"loop", "returned"} /\ idx > 1
LastItem == items[idx - 1]

\* C1: the matched category is the first key, in table order, that is a
\* substring of the lower-cased category or of the lower-cased name, even when
\* a later key matches the category.
C1_FirstCategoryMatch ==
    (Completed /\ Typed(LastItem)) => found_category = ExpectedCategoryOf[LastItem]

C1_Witness ==
    /\ Completed
    /\ LastItem.name = Str("Oak Tree")
    /\ LastItem.category = Str("Shrub")
    /\ found_category = "tree"

\* C2 (as claimed): the matched size is the first size key of the matched
\* category that is a substring of the lower-cased size.
C2_SizeMatchIgnoresCase ==
    (Completed /\ Typed(LastItem) /\ found_category # None)
        => LET m == SizeMatchesOf[LastItem].lowered
           IN m # {} => found_size = SizePrices(found_category)[Min(m)][1]

\* C3: with a matched category and no size key contained in the size, the
\* first size key of the category and its price are used; the item neither
\* raises nor is priced "$0 - $0".
C3_FirstSizeFallback ==
    /\ (Completed /\ Typed(LastItem) /\ found_category # None)
           => (SizeMatchesOf[LastItem].written = {}
                 => /\ found_size = SizePrices(found_category)[1][1]
                    /\ price_range_str = SizePrices(found_category)[1][2]
                    /\ breakdown[idx - 1].unit_price = price_range_str
                    /\ price_range_str # "$0 - $0")
    /\ pc = "raised" => ~Typed(items[idx])

C3_Witness ==
    /\ Completed
    /\ LastItem.category = Str("Shrub")
    /\ LastItem.size = Str("huge")
    /\ found_category = "shrub"
    /\ found_size = "1-gallon"
    /\ price_range_str = "$10 - $20"

RECURSIVE SumOfLines(_, _)
\* the sum over the first n items of bound * quantity, the bound being the
\* low or high bound of the unit price the breakdown reports for the item
SumOfLines(n, bound) ==
    IF n = 0 THEN Zero
    ELSE FAdd(SumOfLines(n - 1, bound),
              FMul(IF bound = "low" THEN BoundsOf[breakdown[n].unit_price].low
                   ELSE BoundsOf[breakdown[n].unit_price].high,
                   QuantityOf(items[n])))

\* C4: total_low is the sum over the items of low bound * quantity, and
\* total_high the sum of high bound * quantity.
C4_TotalsAreSums ==
    pc \in {"loop", "returned"} =>
        /\ Len(breakdown) = idx - 1
        /\ total_low = SumOfLines(idx - 1, "low")
        /\ total_high = SumOfLines(idx - 1, "high")

C4_Witness ==
    /\ pc = "returned"
    /\ Len(items) = 2
    /\ breakdown[1].unit_price = "$80 - $150"
    /\ breakdown[2].unit_price = "$10 - $20"
    /\ total_low = FromInt(180)
    /\ total_high = FromInt(340)

\* C5 (as claimed): every result has total_low <= total_high.
C5_LowAtMostHigh == pc = "returned" => FLeq(total_low, total_high)

\* C5 (amended): every result for a list whose quantities are all numbers
\* >= 0 has total_low <= total_high.
C5_LowAtMostHighNonNegative ==
    (pc = "returned"
     /\ \A k \in 1..Len(items) : QuantityOf(items[k]).t = "int" /\ QuantityOf(items[k]).n >= 0)
        => FLeq(total_low, total_high)

C5_Witness ==
    /\ pc = "returned"
    /\ Len(items) = 2
    /\ QuantityOf(items[1]) = IntV(0)
    /\ QuantityOf(items[2]) = IntV(2)
    /\ ~FLeq(total_high, total_low)

\* the low and high contribution of the line of items[k]
LineLow(k) == LoopBodyOf[items[k]].b.item_total_low
LineHigh(k) == LoopBodyOf[items[k]].b.item_total_high

\* the quantity is a number >= 0 (every float of the model is), and a finite one
AtLeastZero(q) == (q.t = "int" /\ q.n >= 0) \/ q.t = "float"
FiniteAtLeastZero(q) == AtLeastZero(q) /\ q # Infinite

\* a negative quantity multiplies through: the contributions of the line of
\* items[k] are the bounds of its unit price times the quantity, none above
\* zero and the high one at most the low one
MultipliesThrough(k) ==
    LET q == QuantityOf(items[k])
        price == BoundsOf[breakdown[k].unit_price]
    IN (q.t = "int" /\ q.n < 0) =>
          /\ LineLow(k) = FMulInt(price.low, q.n)
          /\ LineHigh(k) = FMulInt(price.high, q.n)
          /\ FLeq(LineLow(k), Zero)
          /\ FLeq(LineHigh(k), LineLow(k))
          /\ (price.low # Zero => LineLow(k).m < 0)

\* C29 (as claimed): when every quantity is >= 0, each line's low contribution
\* is <= its high contribution and total_low <= total_high; a negative
\* quantity multiplies through and gives negative contributions.  (Stated of
\* the line just added, after every iteration.)
C29_LinesAndTotalsOrdered ==
    Completed =>
        /\ (\A k \in 1..(idx - 1) : AtLeastZero(QuantityOf(items[k])))
              => /\ FLeq(LineLow(idx - 1), LineHigh(idx - 1))
                 /\ FLeq(total_low, total_high)
        /\ MultipliesThrough(idx - 1)

\* C29 (amended): the same for quantities that are finite and >= 0.
C29_LinesAndTotalsOrderedFinite ==
    Completed =>
        /\ (\A k \in 1..(idx - 1) : FiniteAtLeastZero(QuantityOf(items[k])))
              => /\ FLeq(LineLow(idx - 1), LineHigh(idx - 1))
                 /\ FLeq(total_low, total_high)
        /\ MultipliesThrough(idx - 1)

C29_Witness ==
    /\ pc = "returned"
    /\ Len(items) = 2
    /\ QuantityOf(items[1]) = IntV(2)
    /\ QuantityOf(items[2]) = IntV(0 - 1)
    /\ breakdown[1].unit_price = "$30 - $55"
    /\ breakdown[2].unit_price = "$80 - $150"
    /\ LineLow(2) = FromInt(0 - 80)
    /\ LineHigh(2) = FromInt(0 - 150)
    /\ total_low = FromInt(0 - 20)
    /\ total_high = FromInt(0 - 40)

\* C6 (as claimed): no call of calculate_budget ends in an exception.
C6_NeverRaises == pc # "raised"

C13_OneLinePerItem ==
    pc \in {"loop", "returned"} =>
        /\ Len(breakdown) = idx - 1
        /\ pc = "returned" => Len(breakdown) = Len(items)
        /\ \A i \in 1..Len(breakdown) :
              /\ breakdown[i].item = NameOf(items[i])
              /\ breakdown[i].quantity = QuantityOf(items[i])

C13_Witness ==
    /\ pc = "returned"
    /\ Len(breakdown) = 2
    /\ items[1].name = Str("Oak Tree")
    /\ items[2].name = Str("Lavender")
    /\ breakdown[1].item = Str("Oak Tree")
    /\ breakdown[2].item = Str("Lavender")
    /\ breakdown[1].quantity = IntV(2)
    /\ breakdown[2].quantity = IntV(0 - 1)

\* the position of a category key in the table
KeyIndex(db_cat) ==
    CHOOSE i \in 1..Len(PRICING_DATABASE) : PRICING_DATABASE[i].category = db_cat

\* C17: 'tree' comes before 'palm' in the table, so an item of category
\* 'palm tree' is matched to 'tree', and with size '15-gallon' it is priced
\* '$80 - $150', not '$100 - $200'.
C17_PalmTreeIsTree ==
    /\ KeyIndex("tree") < KeyIndex("palm")
    /\ (Completed /\ Typed(LastItem) /\ CategoryOf(LastItem) = Str("palm tree"))
          => /\ found_category = "tree"
             /\ SizeOf(LastItem) = Str("15-gallon")
                   => /\ found_size = "15-gallon"
                      /\ price_range_str = "$80 - $150"
                      /\ breakdown[idx - 1].unit_price = "$80 - $150"

C17_Witness ==
    /\ Completed
    /\ LastItem = Item(Str("Queen Palm"), Str("palm tree"), Str("15-gallon"), IntV(1))
    /\ found_category = "tree"
    /\ breakdown[idx - 1].unit_price = "$80 - $150"
    /\ breakdown[idx - 1].total_estimate = "$80.00 - $150.00"

\* C18: the call on an empty list returns zero totals and an empty breakdown,
\* and raises nothing.
C18_EmptyList ==
    (items = <<>> /\ pc # "idle") =>
        /\ pc \in {"loop", "returned"}
        /\ exc = "none"
        /\ total_low = Zero
        /\ total_high = Zero
        /\ breakdown = <<>>

C18_Witness ==
    /\ items = <<>>
    /\ pc = "returned"
    /\ total_low = Zero
    /\ total_high = Zero
    /\ breakdown = <<>>

---------------------------------------------------------------------------
(* Properties of calculate_budget under concurrent callers, SpecCallers *)

Finished(c) == calls[c].pc \in {"returned", "raised"}

\* the low and high contribution of an item's line
ContributionOf(item) ==
    [low |-> LoopBodyOf[item].b.item_total_low, high |-> LoopBodyOf[item].b.item_total_high]

\* caller d's list is caller c's with the k-th quantity doubled, and both
\* have returned
DoubledAt(c, d, k) ==
    /\ calls[c].pc = "returned"
    /\ calls[d].pc = "returned"
    /\ Numeric(calls[c].items[k])
    /\ calls[d].items = Doubled(calls[c].items, k)

\* the k-th line's contribution is exactly twice what it was, and each total
\* is exactly the former total plus the former contribution
ScaledAt(c, d, k) ==
    LET was == ContributionOf(calls[c].items[k])
        is == ContributionOf(calls[d].items[k])
    IN /\ is.low = FAdd(was.low, was.low)
       /\ is.high = FAdd(was.high, was.high)
       /\ calls[d].total_low = FAdd(calls[c].total_low, was.low)
       /\ calls[d].total_high = FAdd(calls[c].total_high, was.high)

AllIntegers(its) == \A i \in 1..Len(its) : quantity_of(its[i]).t = "int"

\* C14 (as claimed): doubling the quantity of one item, the others fixed,
\* exactly doubles that line's low and high contribution, and total_low and
\* total_high each grow by exactly the line's former contribution.
C14_QuantityScaling ==
    \A c \in Callers, d \in Callers :
        \A k \in 1..Len(calls[c].items) : DoubledAt(c, d, k) => ScaledAt(c, d, k)

\* C14 (amended): the same, for lists whose quantities are all integers.
C14_QuantityScalingIntegers ==
    \A c \in Callers, d \in Callers :
        \A k \in 1..Len(calls[c].items) :
            (DoubledAt(c, d, k) /\ AllIntegers(calls[c].items)) => ScaledAt(c, d, k)

C14_Witness ==
    \E c \in Callers, d \in Callers :
        /\ calls[c].items = test_items
        /\ DoubledAt(c, d, 2)
        /\ calls[c].total_low = FromInt(460)
        /\ calls[c].total_high = FromInt(800)
        /\ calls[d].total_low = FromInt(560)
        /\ calls[d].total_high = FromInt(1000)

\* the item with every absent field replaced by the documented default
Defaulted(item) ==
    [f \in DOMAIN item |-> IF item[f] = Absent THEN DefaultItem[f] ELSE item[f]]

\* C15: the call on an item {} returns, without raising, what the call on
\* the item {name: 'Unknown Item', category: 'plant', size: '1-gallon',
\* quantity: 1} returns, with a line for the item.
C15_DefaultSubstitution ==
    \A c \in Callers, d \in Callers :
        (/\ Finished(c)
         /\ Finished(d)
         /\ EmptyItem \in {calls[c].items[i] : i \in 1..Len(calls[c].items)}
         /\ calls[d].items = [i \in 1..Len(calls[c].items) |-> Defaulted(calls[c].items[i])])
            => /\ calls[c].pc = "returned"
               /\ Len(calls[c].breakdown) = Len(calls[c].items)
               /\ ResultOf(calls[c]) = ResultOf(calls[d])

C15_Witness ==
    \E c \in Callers, d \in Callers :
        /\ calls[c].items = <<EmptyItem>>
        /\ calls[d].items = <<DefaultItem>>
        /\ calls[c].pc = "returned"
        /\ calls[d].pc = "returned"
        /\ calls[c].breakdown =
              << [item |-> Str("Unknown Item"), quantity |-> IntV(1),
                  unit_price |-> "$0 - $0", total_estimate |-> "$0.00 - $0.00"] >>
        /\ calls[d].breakdown = calls[c].breakdown

\* C16: on test_items the unit prices are '$80 - $150', '$10 - $20' and
\* '$40 - $60', the lines 160-300, 100-200 and 200-300, and the totals 460
\* and 800.
C16_ReferenceScenario ==
    \A c \in Callers :
        (Finished(c) /\ calls[c].items = test_items)
            => /\ calls[c].pc = "returned"
               /\ [i \in 1..3 |-> calls[c].breakdown[i].unit_price]
                      = <<"$80 - $150", "$10 - $20", "$40 - $60">>
               /\ [i \in 1..3 |-> calls[c].breakdown[i].total_estimate]
                      = <<"$160.00 - $300.00", "$100.00 - $200.00", "$200.00 - $300.00">>
               /\ [i \in 1..3 |-> ContributionOf(test_items[i])]
                      = << [low |-> FromInt(160), high |-> FromInt(300)],
                           [low |-> FromInt(100), high |-> FromInt(200)],
                           [low |-> FromInt(200), high |-> FromInt(300)] >>
               /\ calls[c].total_low = FromInt(460)
               /\ calls[c].total_high = FromInt(800)

C16_Witness ==
    \E c \in Callers :
        /\ calls[c].items = test_items
        /\ calls[c].pc = "returned"
        /\ Len(calls[c].breakdown) = 3
        /\ Format2f(calls[c].total_low) = "460.00"
        /\ Format2f(calls[c].total_high) = "800.00"

\* C19: no step of a call changes PRICING_DATABASE or the items it was
\* handed, and two calls with the same items yield the same result.
C19_PureFunction ==
    /\ [][/\ pricing_database' = pricing_database
           /\ \A c \in Callers : calls'[c].items = calls[c].items]_vars
    /\ [](/\ pricing_database = PRICING_DATABASE
           /\ \A c \in Callers, d \in Callers :
                 (Finished(c) /\ Finished(d) /\ calls[c].items = calls[d].items)
                     => ResultOf(calls[c]) = ResultOf(calls[d]))

C19_Witness ==
    /\ pricing_database = PRICING_DATABASE
    /\ \A c \in Callers :
          /\ calls[c].items = test_items
          /\ calls[c].pc = "returned"
          /\ calls[c].total_low = FromInt(460)

\* calculate_budget run alone on each list
AloneOf == Tabulated([its \in CallerLists |-> calculate_budget(its)])

\* C20: under every interleaving of the callers' steps, each invocation ends
\* with the result it yields when run alone.
C20_NoInterference ==
    \A c \in Callers : Finished(c) => ResultOf(calls[c]) = AloneOf[calls[c].items]

C20_Witness ==
    /\ calls[1].items = test_items
    /\ calls[1].pc = "loop"
    /\ calls[1].idx = 3
    /\ calls[1].total_low = FromInt(260)
    /\ calls[2].pc = "returned"
    /\ calls[2].items # test_items
    /\ Len(calls[2].items) = 2
    /\ calls[2].total_low = FromInt(0 - 80)
    /\ ResultOf(calls[2]) = AloneOf[calls[2].items]

====
